---- MODULE Spec2Model ----
(***************************************************************************)
(* Partition-Compute-Accumulate coordinator of coatyio/dda-examples        *)
(* (compute/components): the coordinator's for-select loop, its dispatch   *)
(* helpers, the tracker it polls, and the announcements that change the    *)
(* tracker while the loop runs.                                            *)
(***************************************************************************)
EXTENDS Bags, FiniteSets, Integers, Naturals, Sequences, TLC

(* ------------------------------ bounds --------------------------------- *)

\* number of worker instances that may start during a run
MaxWorkers == 2
\* number of peer coordinators that may start during a run
MaxPeers == 1
\* largest argument n of a fac request (inputs "2".."n")
MaxFacArg == 2
\* largest number of iterations of a pi request (inputs K = 0..n-1)
MaxPiIter == 2
\* paragraphs beyond the capacity of the resubmit queue in a long wf request
MaxExtra == 2
\* workers, and peers, that start while the coordinator starts
MaxStarters == 1
MaxIds == 2
MaxActions == 3
\* the largest argument of the factorial taken step by step
MaxFacN == 10

(* ------------------------- program constants --------------------------- *)

\* capacity of the pcResubmit channel
ResubmitCap == 100

DataAnnounceJoin == "HELLO"
DataAnnounceLeave == "BYE"

RoleUndefined == 0
RoleCoordinator == 1
RoleWorker == 2

(* ------------------------------- ids ----------------------------------- *)

\* id of the coordinator whose loop is modelled
SelfId == <<"c", 0>>
PeerIds == {<<"c", i>> : i \in 1..MaxPeers}
WorkerIds == {<<"w", i>> : i \in 1..MaxWorkers}

VARIABLES
    coordinators,     \* Tracker.coordinators of the coordinator
    workers,          \* Tracker.workers of the coordinator
    phase,            \* per worker and peer, how far its Start has come: "new",
                      \* "tracking" (a worker subscribed to announceCoordinator),
                      \* "init" (all subscribed, none published), "serving" (HELLO),
                      \* "closed" (HELLO, then BYE)
    results,          \* action results published by trackCoordinators
    cm,               \* the computation of the request: [name, n]
    inRead,           \* number of inputs received from the partition channel
    inNil,            \* the loop has set in = nil
    pcProc,           \* current number of processing partial computations
    pcResubmit,       \* queue of inputs to be resubmitted
    failFast,         \* indicates fast failure
    currentFreeState, \* workerFreeState taken at the top of the iteration
    pc,               \* position of the loop goroutine: "idle" (not started), "top",
                      \* "select", "break", "done"
    ctx,              \* the coordinator's child context: "active", "signal", "completed"
    awaiting,         \* bag of inputs whose helper waits in stream.Recv
    sending,          \* bag of partialResults whose helper blocks on the completed channel
    accumulated,      \* bag of outputs passed to cm.Accumulate
    finalizeCalls,    \* number of calls of cm.Finalize
    output,           \* lines written to req.OutputWriter by the loop goroutine
    startPc,          \* position of Coordinator.Start
    heard,            \* workers and peers that hold the coordinator's HELLO action
    replies,          \* ids whose result is in transit on the stream of announce(true)
    announceStream,   \* response stream of announce(true): "none", "open", "done"
    echo,             \* the coordinator's own announcement on its way back to it
    call,             \* the TryJoin or Leave call of a tracker taken by itself:
                      \* [op, role, id, ret], holding t.mu or returned last
    mu,               \* Tracker.mu: "free", "locked" (Lock) or "rlocked" (RLock)
    countPc,          \* position of a Count call: "idle", "rlocked", "lenC", "lenW"
    counted,          \* the pair Count has evaluated for its return
    acts,             \* a worker's channel of announceCoordinator actions
    acs,              \* a worker's channel of pcomp actions
    handling,         \* the action handlePartialComputation works on and its position
    published,        \* action results the worker has published, in order
    running,          \* bag of the Accumulate and Finalize calls in progress on cm
    wPc,              \* position of Worker.Start
    wCanceled,        \* the context given to Worker.Start is done
    wTasks,           \* the worker's two goroutines: "none", "running", "finalizing"
                      \* (blocked in w.finalize()), "finished"
    wEvents,          \* data of the announceWorker events the worker has published
    exited,           \* exit status of the coordinator process, <<>> while it runs
    fault,            \* "panic" when a goroutine of the coordinator has panicked
    fac               \* a FacComputation: the counter i of Partition's goroutine, the
                      \* inputs sent on its channel, the channel closed, the outputs
                      \* PartialCompute returned per input, the inputs whose output
                      \* was accumulated, c.result, and the results Finalize printed

trackerVars == <<coordinators, workers>>
startVars == <<startPc, heard, replies, announceStream, echo>>
envVars == <<phase, results, startVars>>
mutexVars == <<call, mu, countPc, counted>>
workerVars == <<acts, acs, handling, published>>
workerLife == <<wPc, wCanceled, wTasks, wEvents>>
unitVars == <<mutexVars, workerVars, running, workerLife, exited>>
loopVars == <<inRead, inNil, pcProc, pcResubmit, failFast, currentFreeState, pc,
              accumulated, finalizeCalls, output>>
helperVars == <<awaiting, sending>>
coordinatorVars == <<envVars, cm, loopVars, ctx, helperVars>>
vars == <<coordinators, workers, phase, results, cm, inRead, inNil, pcProc,
          pcResubmit, failFast, currentFreeState, pc, ctx, awaiting, sending,
          accumulated, finalizeCalls, output, startPc, heard, replies,
          announceStream, echo, call, mu, countPc, counted, acts, acs, handling,
          published, running, wPc, wCanceled, wTasks, wEvents, exited, fault, fac>>

(* ----------------------------- common.go ------------------------------- *)

ParseComponentRole(r) ==
    CASE r = "coordinator" -> RoleCoordinator
      [] r = "worker" -> RoleWorker
      [] OTHER -> RoleUndefined

RoleString(r) ==
    CASE r = RoleCoordinator -> "coordinator"
      [] r = RoleWorker -> "worker"
      [] OTHER -> "undefined"

(* ----------------------------- tracker.go ------------------------------ *)

\* a faulty TryJoin that registers workers only
TryJoinWorkersOnly(role, id, cs, ws) ==
    CASE role = RoleWorker -> <<cs, ws \cup {id}>>
      [] OTHER -> <<cs, ws>>

\* a faulty TryJoin that drops an id it is told of a second time
TryJoinToggling(role, id, cs, ws) ==
    CASE role = RoleCoordinator -> <<IF id \in cs THEN cs \ {id} ELSE cs \cup {id}, ws>>
      [] role = RoleWorker -> <<cs, IF id \in ws THEN ws \ {id} ELSE ws \cup {id}>>
      [] OTHER -> <<cs, ws>>

\* a faulty TryJoin that evicts the other ids of the role
TryJoinEvicting(role, id, cs, ws) ==
    CASE role = RoleCoordinator -> <<{id}, ws>>
      [] role = RoleWorker -> <<cs, {id}>>
      [] OTHER -> <<cs, ws>>

\* the two sets after TryJoin(role, id)
TryJoin(role, id, cs, ws) ==
    CASE role = RoleCoordinator -> <<cs \cup {id}, ws>>
      [] role = RoleWorker -> <<cs, ws \cup {id}>>
      [] OTHER -> <<cs, ws>>

\* a faulty Leave that empties the set of the role
LeaveAll(role, id, cs, ws) ==
    CASE role = RoleCoordinator -> <<{}, ws>>
      [] role = RoleWorker -> <<cs, {}>>
      [] OTHER -> <<cs, ws>>

\* a faulty Leave that deletes the id from the sets of both roles
LeaveBothRoles(role, id, cs, ws) ==
    CASE role \in {RoleCoordinator, RoleWorker} -> <<cs \ {id}, ws \ {id}>>
      [] OTHER -> <<cs, ws>>

\* the two sets after Leave(role, id)
Leave(role, id, cs, ws) ==
    CASE role = RoleCoordinator -> <<cs \ {id}, ws>>
      [] role = RoleWorker -> <<cs, ws \ {id}>>
      [] OTHER -> <<cs, ws>>

Count(cs, ws) == <<Cardinality(cs), Cardinality(ws)>>

\* a faulty result of TryJoin that reports every id as new
TryJoinReturnsAlways(role, id, cs, ws) == TRUE

\* the result of TryJoin(role, id), lines 40-44
TryJoinReturns(role, id, cs, ws) ==
    CASE role = RoleCoordinator -> id \notin cs
      [] role = RoleWorker -> id \notin ws

(* ------------------- Tracker methods under t.mu ------------------------ *)

\* ids and roles the methods of a tracker taken by itself are called with;
\* TryJoin is called with RoleCoordinator and RoleWorker only
TrackerIds == {<<"id", k>> : k \in 1..MaxIds}
TrackerRoles == {RoleCoordinator, RoleWorker}

NoCall == [op |-> "none", role |-> RoleUndefined, id |-> <<"id", 0>>, done |-> TRUE, ret |-> <<>>]

\* lines 30 and 49: t.mu.Lock() of a TryJoin or Leave call
TrackerLock(op, role, id) ==
    /\ mu = "free"
    /\ mu' = "locked"
    /\ call' = [op |-> op, role |-> role, id |-> id, done |-> FALSE, ret |-> <<>>]
    /\ UNCHANGED <<trackerVars, countPc, counted, workerVars, coordinatorVars, running, workerLife, exited, fault, fac>>

\* lines 33-39: with a role other than coordinator and worker the variable
\* set stays nil, and the assignment set[id] = struct{}{} of line 43 panics
TryJoinPanics(role) == role \notin {RoleCoordinator, RoleWorker}

\* lines 33-43 with the undefined role: the write to the nil map panics, the
\* deferred Unlock runs, and the panic ends the process
TryJoinPanic ==
    /\ mu = "locked"
    /\ call.op = "TryJoin"
    /\ TryJoinPanics(call.role)
    /\ fault' = "panic"
    /\ mu' = "free"
    /\ UNCHANGED <<trackerVars, call, countPc, counted, workerVars, coordinatorVars, running,
                   workerLife, exited, fac>>

\* common.go lines 247-249 and 316-322: the goroutine that receives a join
\* reply (role string ar.Context) or a worker announcement (role string
\* evt.Source) calls the tracker with the role parsed from the role string
TrackerCallFor(src, data, id) ==
    TrackerLock(IF data = DataAnnounceJoin THEN "TryJoin" ELSE "Leave",
                ParseComponentRole(src), id)

\* lines 33-45: the body of TryJoin and the deferred Unlock
TryJoinReturn ==
    /\ mu = "locked"
    /\ call.op = "TryJoin"
    /\ ~TryJoinPanics(call.role)
    /\ LET next == TryJoin(call.role, call.id, coordinators, workers)
       IN /\ coordinators' = next[1]
          /\ workers' = next[2]
    /\ call' = [call EXCEPT !.done = TRUE,
                            !.ret = <<TryJoinReturns(call.role, call.id, coordinators, workers)>>]
    /\ mu' = "free"
    /\ UNCHANGED <<countPc, counted, workerVars, coordinatorVars, running, workerLife, exited, fault, fac>>

\* lines 52-58: the body of Leave and the deferred Unlock
LeaveReturn ==
    /\ mu = "locked"
    /\ call.op = "Leave"
    /\ LET next == Leave(call.role, call.id, coordinators, workers)
       IN /\ coordinators' = next[1]
          /\ workers' = next[2]
    /\ call' = [call EXCEPT !.done = TRUE]
    /\ mu' = "free"
    /\ UNCHANGED <<countPc, counted, workerVars, coordinatorVars, running, workerLife, exited, fault, fac>>

\* a faulty Count that does not take the lock
CountNoLock ==
    /\ countPc = "idle"
    /\ countPc' = "rlocked"
    /\ UNCHANGED <<trackerVars, call, mu, counted, workerVars, coordinatorVars, running, workerLife, exited, fault, fac>>

\* line 62: t.mu.RLock() of a Count call
CountRLock ==
    /\ mu = "free"
    /\ countPc = "idle"
    /\ mu' = "rlocked"
    /\ countPc' = "rlocked"
    /\ UNCHANGED <<trackerVars, call, counted, workerVars, coordinatorVars, running, workerLife, exited, fault, fac>>

\* line 65: len(t.coordinators)
CountLenC ==
    /\ countPc = "rlocked"
    /\ counted' = <<Count(coordinators, workers)[1], counted[2]>>
    /\ countPc' = "lenC"
    /\ UNCHANGED <<trackerVars, call, mu, workerVars, coordinatorVars, running, workerLife, exited, fault, fac>>

\* line 65: len(t.workers)
CountLenW ==
    /\ countPc = "lenC"
    /\ counted' = <<counted[1], Count(coordinators, workers)[2]>>
    /\ countPc' = "lenW"
    /\ UNCHANGED <<trackerVars, call, mu, workerVars, coordinatorVars, running, workerLife, exited, fault, fac>>

\* lines 64-65: the deferred RUnlock, and Count returns the pair
CountReturn ==
    /\ countPc = "lenW"
    /\ mu' = "free"
    /\ countPc' = "idle"
    /\ UNCHANGED <<trackerVars, call, counted, workerVars, coordinatorVars, running, workerLife, exited, fault, fac>>

(* --------------------------- computations ------------------------------ *)

\* an empty byte slice: a computational or encoding error
Empty == <<>>
\* nil output: the worker sends no result
Nil == <<"nil">>

\* the inputs a computation's Partition emits, in order
FacPartition(n) == [k \in 1..(IF n >= 2 THEN n - 1 ELSE 0) |-> <<"int", k + 1>>]
PiPartition(n) == [k \in 1..n |-> <<"K", k - 1>>]
WfPartition(n) == [k \in 1..n |-> <<"paragraph", 1>>]

Partition(c) ==
    CASE c.name = "fac" -> FacPartition(c.n)
      [] c.name = "pi" -> PiPartition(c.n)
      [] c.name = "wf" -> WfPartition(c.n)

\* the outputs PartialCompute may return for an input
FacPartialCompute(input) == {input}
PiPartialCompute(input) == {<<"Sum", input[2]>>, Empty}
WfPartialCompute(input) == {<<"frequency", input[2]>>, Nil}

PartialCompute(c, input) ==
    CASE c.name = "fac" -> FacPartialCompute(input)
      [] c.name = "pi" -> PiPartialCompute(input)
      [] c.name = "wf" -> WfPartialCompute(input)

\* the output of a partial computation that meets no error
Computed(c, input) ==
    CASE c.name = "fac" -> input
      [] c.name = "pi" -> <<"Sum", input[2]>>
      [] c.name = "wf" -> <<"frequency", input[2]>>

\* PartialComputeTimeout is finite (pi returns math.MaxInt64 nanoseconds)
TimeoutExpires(c) == c.name # "pi"

(* ------------------------- workerFreeState ----------------------------- *)

\* a faulty Free that compares with all workers instead of the share W/C
FreeOfAllWorkers(s) == IF s.cc = 0 THEN 0 ELSE s.cw - s.pcProc

\* a faulty Free that rounds the share W/C up
FreeRoundingUp(s) == IF s.cc = 0 THEN 0 ELSE ((s.cw + s.cc - 1) \div s.cc) - s.pcProc

Free(s) == IF s.cc = 0 THEN 0 ELSE (s.cw \div s.cc) - s.pcProc

\* a faulty gate that also unblocks the channels when Free() is 0
UnblockedAtZero(s) == Free(s) >= 0

\* the select cases reading in and pcResubmit are unblocked (inFree, pcResubmitFree non-nil)
Unblocked(s) == Free(s) > 0

(* ------------------------ lifecycle tracking --------------------------- *)

Announcement(source, id, data) == [src |-> source, id |-> id, data |-> data]

\* the announceWorker event a worker publishes next: HELLO by Worker.announce(true)
\* when it starts, BYE by Worker.announce(false) when it shuts down
WorkerEvents ==
    {Announcement(RoleString(RoleWorker), w, DataAnnounceJoin) :
         w \in {v \in WorkerIds : phase[v] = "init"
                    /\ \A u \in WorkerIds : u[2] < v[2] => phase[u] # "init"}}
    \cup {Announcement(RoleString(RoleWorker), w, DataAnnounceLeave) :
              w \in {v \in WorkerIds : phase[v] = "serving"}}

\* the announceCoordinator action a peer publishes next by Coordinator.announce
CoordinatorActions ==
    {Announcement(RoleString(RoleCoordinator), p, DataAnnounceJoin) :
         p \in {q \in PeerIds : phase[q] = "init"
                    /\ \A u \in PeerIds : u[2] < q[2] => phase[u] # "init"}}
    \cup {Announcement(RoleString(RoleCoordinator), p, DataAnnounceLeave) :
              p \in {q \in PeerIds : phase[q] = "serving"}}

\* the publisher of an announcement has started (HELLO) or shut down (BYE)
Announced(a) ==
    [phase EXCEPT ![a.id] = IF a.data = DataAnnounceJoin THEN "serving" ELSE "closed"]

\* a faulty trackWorkers that treats every event as a join
trackWorkersKeeping(evt) ==
    /\ ctx = "active"
    /\ LET next == TryJoin(ParseComponentRole(evt.src), evt.id, coordinators, workers)
       IN /\ coordinators' = next[1]
          /\ workers' = next[2]
    /\ phase' = Announced(evt)
    /\ UNCHANGED <<results, cm, unitVars, fault, fac, loopVars, ctx, helperVars>>

\* Coordinator.trackWorkers: one received announceWorker event
trackWorkers(evt) ==
    /\ ctx = "active"
    /\ LET next == IF evt.data = DataAnnounceJoin
                   THEN TryJoin(ParseComponentRole(evt.src), evt.id, coordinators, workers)
                   ELSE Leave(ParseComponentRole(evt.src), evt.id, coordinators, workers)
       IN /\ coordinators' = next[1]
          /\ workers' = next[2]
    /\ phase' = Announced(evt)
    /\ UNCHANGED <<results, cm, unitVars, fault, fac, loopVars, ctx, helperVars>>

\* a faulty trackCoordinators that does not skip the echo of its own HELLO
trackCoordinatorsNoSkip(ac) ==
    /\ ctx = "active"
    /\ LET joined == TryJoin(ParseComponentRole(ac.src), ac.id, coordinators, workers)
           left == Leave(ParseComponentRole(ac.src), ac.id, coordinators, workers)
       IN IF ac.data = DataAnnounceJoin
          THEN /\ coordinators' = joined[1]
               /\ workers' = joined[2]
               /\ results' = results \cup
                      {[correlation |-> ac.id,
                        context |-> RoleString(RoleCoordinator), data |-> SelfId]}
          ELSE /\ coordinators' = left[1]
               /\ workers' = left[2]
               /\ UNCHANGED results
    /\ phase' = Announced(ac)
    /\ UNCHANGED <<cm, unitVars, fault, fac, loopVars, ctx, helperVars>>

\* Coordinator.trackCoordinators: one received announceCoordinator action
trackCoordinators(ac) ==
    /\ ctx = "active"
    /\ LET joined == TryJoin(ParseComponentRole(ac.src), ac.id, coordinators, workers)
           left == Leave(ParseComponentRole(ac.src), ac.id, coordinators, workers)
       IN IF ac.data = DataAnnounceJoin
          THEN IF ac.id # SelfId
               THEN /\ coordinators' = joined[1]
                    /\ workers' = joined[2]
                    /\ results' = results \cup
                           {[correlation |-> ac.id,
                             context |-> RoleString(RoleCoordinator), data |-> SelfId]}
               ELSE UNCHANGED <<coordinators, workers, results>>
          ELSE /\ coordinators' = left[1]
               /\ workers' = left[2]
               /\ UNCHANGED results
    /\ phase' = Announced(ac)
    /\ UNCHANGED <<cm, unitVars, fault, fac, loopVars, ctx, helperVars>>

\* a termination signal cancels the parent context
Terminate ==
    /\ ctx = "active"
    /\ pc # "done"
    /\ ctx' = "signal"
    /\ UNCHANGED <<trackerVars, envVars, cm, unitVars, fault, fac, loopVars, helperVars>>

(* ------------------- Coordinator.partitionAccumulate ------------------- *)

\* a faulty completion that does not carry the bytes it was given
partialResultNoData(data, resubmit) == [data |-> Empty, resubmit |-> resubmit]

\* the record sent on pcCompleted; workerId is only logged and is left out
partialResult(data, resubmit) == [data |-> data, resubmit |-> resubmit]

\* faulty break conditions: one forgets the resubmit queue, one the in-flight count
AllCompletedIgnoringQueue(drained, proc, queue) == drained /\ proc = 0

AllCompletedIgnoringProc(drained, proc, queue) == drained /\ Len(queue) = 0

\* all partial computations completed: the conditions of the two clean breaks
AllCompleted(drained, proc, queue) == drained /\ proc = 0 /\ Len(queue) = 0

\* faulty sends: one into a channel of capacity 101, one that never fails
CanQueueAtCap(queue) == Len(queue) <= ResubmitCap

CanQueueAlways(queue) == TRUE

\* the non-blocking send pcResubmit <- res.data succeeds
CanQueue(queue) == Len(queue) < ResubmitCap

\* a faulty test that takes no result data for an error
NeverError(data) == FALSE

\* line 427: the result data signals a computational or encoding error
IsError(data) == Len(data) = 0

\* a faulty epilogue that finalizes whatever failFast says
SucceededAlways(ff) == TRUE

\* line 441: the loop was left without fast failure, so cm.Finalize is called
Succeeded(ff) == ~ff

\* a faulty loop top that takes the tracker snapshot only in the first
\* iteration and then only counts the partials in flight
LoopTopOnce ==
    /\ pc = "top"
    /\ currentFreeState' =
           IF currentFreeState.cc = 0
           THEN [cc |-> Count(coordinators, workers)[1],
                 cw |-> Count(coordinators, workers)[2],
                 pcProc |-> pcProc]
           ELSE [currentFreeState EXCEPT !.pcProc = pcProc]
    /\ pc' = "select"
    /\ UNCHANGED <<trackerVars, envVars, cm, unitVars, fault, fac, inRead, inNil, pcProc, pcResubmit, failFast,
                   ctx, helperVars, accumulated, finalizeCalls, output>>

\* lines 378-390: take the tracker snapshot and (un)block the input channels
LoopTop ==
    /\ pc = "top"
    /\ currentFreeState' = [cc |-> Count(coordinators, workers)[1],
                            cw |-> Count(coordinators, workers)[2],
                            pcProc |-> pcProc]
    /\ pc' = "select"
    /\ UNCHANGED <<trackerVars, envVars, cm, unitVars, fault, fac, inRead, inNil, pcProc, pcResubmit, failFast,
                   ctx, helperVars, accumulated, finalizeCalls, output>>

\* a faulty case that sees the cancellation and goes on with the loop
SelectCtxDoneIgnored ==
    /\ pc = "select"
    /\ ctx # "active"
    /\ pc' = "top"
    /\ UNCHANGED <<trackerVars, envVars, cm, unitVars, fault, fac, inRead, inNil, pcProc, pcResubmit, failFast,
                   currentFreeState, ctx, helperVars, accumulated, finalizeCalls, output>>

\* lines 395-397: case <-ctx.Done()
SelectCtxDone ==
    /\ pc = "select"
    /\ ctx # "active"
    /\ failFast' = TRUE
    /\ pc' = "break"
    /\ UNCHANGED <<trackerVars, envVars, cm, unitVars, fault, fac, inRead, inNil, pcProc, pcResubmit,
                   currentFreeState, ctx, helperVars, accumulated, finalizeCalls, output>>

\* lines 398-408: case input, ok := <-inFree
SelectIn ==
    /\ pc = "select"
    /\ Unblocked(currentFreeState)
    /\ ~inNil
    /\ IF inRead < Len(Partition(cm))
       THEN /\ inRead' = inRead + 1
            /\ pcProc' = pcProc + 1
            /\ awaiting' = awaiting (+) SetToBag({Partition(cm)[inRead + 1]})
            /\ pc' = "top"
            /\ UNCHANGED inNil
       ELSE /\ inNil' = TRUE
            /\ pc' = IF AllCompleted(TRUE, pcProc, pcResubmit) THEN "break" ELSE "top"
            /\ UNCHANGED <<inRead, pcProc, awaiting>>
    /\ UNCHANGED <<trackerVars, envVars, cm, unitVars, fault, fac, pcResubmit, failFast, currentFreeState, ctx,
                   sending, accumulated, finalizeCalls, output>>

\* a faulty resubmission that leaves the input in the queue
SelectResubmitKeeping ==
    /\ pc = "select"
    /\ Unblocked(currentFreeState)
    /\ pcResubmit # <<>>
    /\ pcProc' = pcProc + 1
    /\ awaiting' = awaiting (+) SetToBag({Head(pcResubmit)})
    /\ pc' = "top"
    /\ UNCHANGED <<trackerVars, envVars, cm, unitVars, fault, fac, inRead, inNil, failFast, currentFreeState, ctx,
                   sending, accumulated, finalizeCalls, output, pcResubmit>>

\* lines 409-412: case input := <-pcResubmitFree
SelectResubmit ==
    /\ pc = "select"
    /\ Unblocked(currentFreeState)
    /\ pcResubmit # <<>>
    /\ pcResubmit' = Tail(pcResubmit)
    /\ pcProc' = pcProc + 1
    /\ awaiting' = awaiting (+) SetToBag({Head(pcResubmit)})
    /\ pc' = "top"
    /\ UNCHANGED <<trackerVars, envVars, cm, unitVars, fault, fac, inRead, inNil, failFast, currentFreeState, ctx,
                   sending, accumulated, finalizeCalls, output>>

\* lines 413-436: case res := <-pcCompleted
SelectCompleted(res) ==
    /\ pc = "select"
    /\ BagIn(res, sending)
    /\ sending' = sending (-) SetToBag({res})
    /\ pcProc' = pcProc - 1
    /\ IF res.resubmit
       THEN IF CanQueue(pcResubmit)
            THEN /\ pcResubmit' = Append(pcResubmit, res.data)
                 /\ pc' = "top"
                 /\ UNCHANGED <<failFast, accumulated>>
            ELSE /\ failFast' = TRUE
                 /\ pc' = "break"
                 /\ UNCHANGED <<pcResubmit, accumulated>>
       ELSE IF IsError(res.data)
            THEN /\ failFast' = TRUE
                 /\ pc' = "break"
                 /\ UNCHANGED <<pcResubmit, accumulated>>
            ELSE /\ accumulated' = accumulated (+) SetToBag({res.data})
                 /\ pc' = IF AllCompleted(inNil, pcProc - 1, pcResubmit)
                          THEN "break" ELSE "top"
                 /\ UNCHANGED <<pcResubmit, failFast>>
    /\ UNCHANGED <<trackerVars, envVars, cm, unitVars, fault, fac, inRead, inNil, currentFreeState, ctx, awaiting,
                   finalizeCalls, output>>

\* line 437: default, taken when no case is ready (the partition goroutine may
\* not have sent or closed yet, so the in case is never known to be ready)
SelectDefault ==
    /\ pc = "select"
    /\ ctx = "active"
    /\ sending = EmptyBag
    /\ ~(Unblocked(currentFreeState) /\ pcResubmit # <<>>)
    /\ pc' = "top"
    /\ UNCHANGED <<trackerVars, envVars, cm, unitVars, fault, fac, inRead, inNil, pcProc, pcResubmit, failFast,
                   currentFreeState, ctx, helperVars, accumulated, finalizeCalls, output>>

\* lines 441-445, then the deferred cancel() of line 350
Epilogue ==
    /\ pc = "break"
    /\ IF Succeeded(failFast)
       THEN /\ finalizeCalls' = finalizeCalls + 1
            /\ output' = Append(output, "result")
       ELSE /\ output' = Append(output, "failed")
            /\ UNCHANGED finalizeCalls
    /\ ctx' = IF ctx = "active" THEN "completed" ELSE ctx
    /\ pc' = "done"
    /\ UNCHANGED <<trackerVars, envVars, cm, unitVars, fault, fac, inRead, inNil, pcProc, pcResubmit, failFast,
                   currentFreeState, helperVars, accumulated>>

(* -------- the calls of cm.Accumulate and cm.Finalize, step by step ------ *)

\* a faulty design in which the helper goroutine that received the output
\* calls Accumulate itself
AccumulateCallByHelper(res) ==
    /\ BagIn(res, sending)
    /\ ~res.resubmit
    /\ ~IsError(res.data)
    /\ sending' = sending (-) SetToBag({res})
    /\ running' = running (+) SetToBag({[method |-> "Accumulate", data |-> res.data]})
    /\ UNCHANGED <<trackerVars, envVars, cm, mutexVars, workerVars, workerLife, exited, fault, fac, loopVars, ctx, awaiting>>

\* lines 413-433: case res := <-pcCompleted with an output; Accumulate is called
AccumulateCall(res) ==
    /\ pc = "select"
    /\ BagIn(res, sending)
    /\ ~res.resubmit
    /\ ~IsError(res.data)
    /\ sending' = sending (-) SetToBag({res})
    /\ pcProc' = pcProc - 1
    /\ running' = running (+) SetToBag({[method |-> "Accumulate", data |-> res.data]})
    /\ pc' = "accumulate"
    /\ UNCHANGED <<trackerVars, envVars, cm, mutexVars, workerVars, workerLife, exited, fault, fac, inRead, inNil, pcResubmit,
                   failFast, currentFreeState, ctx, awaiting, accumulated, finalizeCalls,
                   output>>

\* lines 433-436: Accumulate returns and the loop checks for completion
AccumulateReturn ==
    /\ pc = "accumulate"
    /\ \E r \in BagToSet(running) :
           /\ r.method = "Accumulate"
           /\ running' = running (-) SetToBag({r})
           /\ accumulated' = accumulated (+) SetToBag({r.data})
    /\ pc' = IF AllCompleted(inNil, pcProc, pcResubmit) THEN "break" ELSE "top"
    /\ UNCHANGED <<trackerVars, envVars, cm, mutexVars, workerVars, workerLife, exited, fault, fac, inRead, inNil, pcProc,
                   pcResubmit, failFast, currentFreeState, ctx, helperVars, finalizeCalls,
                   output>>

\* lines 441-442: Finalize is called
FinalizeCall ==
    /\ pc = "break"
    /\ Succeeded(failFast)
    /\ running' = running (+) SetToBag({[method |-> "Finalize", data |-> Empty]})
    /\ pc' = "finalize"
    /\ UNCHANGED <<trackerVars, envVars, cm, mutexVars, workerVars, workerLife, exited, fault, fac, inRead, inNil, pcProc,
                   pcResubmit, failFast, currentFreeState, ctx, helperVars, accumulated,
                   finalizeCalls, output>>

\* line 442, then the deferred cancel() of line 350: Finalize returns
FinalizeReturn ==
    /\ pc = "finalize"
    /\ running' = running (-) SetToBag({[method |-> "Finalize", data |-> Empty]})
    /\ finalizeCalls' = finalizeCalls + 1
    /\ output' = Append(output, "result")
    /\ ctx' = IF ctx = "active" THEN "completed" ELSE ctx
    /\ pc' = "done"
    /\ UNCHANGED <<trackerVars, envVars, cm, mutexVars, workerVars, workerLife, exited, fault, fac, inRead, inNil, pcProc,
                   pcResubmit, failFast, currentFreeState, helperVars, accumulated>>

(* ---------------- Coordinator.performPartialComputation ---------------- *)

\* line 488: a worker's result is received
HelperResult(input, out) ==
    /\ BagIn(input, awaiting)
    /\ out \in PartialCompute(cm, input) \ {Nil}
    /\ awaiting' = awaiting (-) SetToBag({input})
    /\ sending' = sending (+) SetToBag({partialResult(out, FALSE)})
    /\ UNCHANGED <<trackerVars, envVars, cm, unitVars, fault, fac, loopVars, ctx>>

\* lines 475-484 with codes.DeadlineExceeded: PartialComputeTimeout expired
HelperDeadline(input) ==
    /\ BagIn(input, awaiting)
    /\ TimeoutExpires(cm)
    /\ awaiting' = awaiting (-) SetToBag({input})
    /\ sending' = sending (+) SetToBag({partialResult(input, TRUE)})
    /\ UNCHANGED <<trackerVars, envVars, cm, unitVars, fault, fac, loopVars, ctx>>

\* a faulty helper that sends its completion record twice
HelperErrorTwice(input) ==
    /\ BagIn(input, awaiting)
    /\ awaiting' = awaiting (-) SetToBag({input})
    /\ sending' = sending (+) SetToBag({partialResult(input, TRUE)})
                        (+) SetToBag({partialResult(input, TRUE)})
    /\ UNCHANGED <<trackerVars, envVars, cm, unitVars, fault, fac, loopVars, ctx>>

\* lines 462-469 and 475-484 with a transport error or io.EOF
HelperError(input) ==
    /\ BagIn(input, awaiting)
    /\ awaiting' = awaiting (-) SetToBag({input})
    /\ sending' = sending (+) SetToBag({partialResult(input, TRUE)})
    /\ UNCHANGED <<trackerVars, envVars, cm, unitVars, fault, fac, loopVars, ctx>>

\* lines 463-465 and 478-480: codes.Canceled, nothing is sent on completed
HelperCanceled(input) ==
    /\ BagIn(input, awaiting)
    /\ ctx # "active"
    /\ awaiting' = awaiting (-) SetToBag({input})
    /\ UNCHANGED <<trackerVars, envVars, cm, unitVars, fault, fac, loopVars, ctx, sending>>

(* -------------------------- Coordinator.Start -------------------------- *)

\* the context of a responder's result: its own role
RoleOf(id) == IF id \in WorkerIds THEN RoleString(RoleWorker) ELSE RoleString(RoleCoordinator)

\* workers and peers whose subscription to announceCoordinator actions is receiving
Responders == {x \in WorkerIds \cup PeerIds : phase[x] \in {"tracking", "init", "serving"}}

\* the registry or Partition rejects the request: pi requires a positive argument
Rejected(c) == c.name = "pi" /\ c.n = 0

\* the subscription of trackCoordinators / of trackWorkers is receiving
TracksCoordinators ==
    /\ startPc \in {"trackingCoordinators", "trackingWorkers", "announced", "awaiting"}
    /\ ctx = "active"

\* a faulty order: the worker events are subscribed to after announce(true)
TracksWorkersAfterAnnounce ==
    /\ startPc = "awaiting"
    /\ ctx = "active"

TracksWorkers ==
    /\ startPc \in {"trackingWorkers", "announced", "awaiting"}
    /\ ctx = "active"

\* line 139: preregister as coordinator (and open the gRPC client)
StartJoin ==
    /\ startPc = "new"
    /\ LET next == TryJoin(RoleCoordinator, SelfId, coordinators, workers)
       IN /\ coordinators' = next[1]
          /\ workers' = next[2]
    /\ startPc' = "joined"
    /\ UNCHANGED <<phase, results, heard, replies, announceStream, echo, cm, unitVars, fault, fac, loopVars,
                   ctx, helperVars>>

\* lines 149-152 and 258-261: SubscribeAction of trackCoordinators
SubscribeCoordinators ==
    /\ startPc = "joined"
    /\ startPc' = "trackingCoordinators"
    /\ UNCHANGED <<trackerVars, phase, results, heard, replies, announceStream, echo, cm, unitVars, fault, fac,
                   loopVars, ctx, helperVars>>

\* lines 153-156 and 300-303: SubscribeEvent of trackWorkers
SubscribeWorkers ==
    /\ startPc = "trackingCoordinators"
    /\ startPc' = "trackingWorkers"
    /\ UNCHANGED <<trackerVars, phase, results, heard, replies, announceStream, echo, cm, unitVars, fault, fac,
                   loopVars, ctx, helperVars>>

\* lines 143-157: an initialization fails and Start returns; the deferred
\* cancel() of line 137 runs
StartFails ==
    /\ startPc \in {"joined", "trackingCoordinators"}
    /\ startPc' = "failed"
    /\ ctx' = IF ctx = "active" THEN "completed" ELSE ctx
    /\ UNCHANGED <<trackerVars, phase, results, heard, replies, announceStream, echo, cm, unitVars, fault, fac,
                   loopVars, helperVars>>

\* lines 159 and 205-232: announce(true) publishes the HELLO action, which
\* reaches every receiving subscription, the coordinator's own included
announceJoin ==
    /\ startPc = "trackingWorkers"
    /\ startPc' = "announced"
    /\ heard' = Responders
    /\ announceStream' = "open"
    /\ echo' = DataAnnounceJoin
    /\ UNCHANGED <<trackerVars, phase, results, replies, cm, unitVars, fault, fac, loopVars, ctx, helperVars>>

\* lines 266-287: trackCoordinators receives the coordinator's own HELLO
EchoJoin ==
    /\ echo = DataAnnounceJoin
    /\ startPc # "closed"
    /\ trackCoordinators(Announcement(RoleString(RoleCoordinator), SelfId, DataAnnounceJoin))
    /\ echo' = "none"
    /\ UNCHANGED <<startPc, heard, replies, announceStream>>

\* Worker.trackCoordinators lines 149-158 and Coordinator.trackCoordinators
\* lines 276-287 in a peer: a responder replies to the coordinator's HELLO
Reply(x) ==
    /\ x \in heard
    /\ x \in Responders
    /\ heard' = heard \ {x}
    /\ replies' = replies \cup {x}
    /\ UNCHANGED <<trackerVars, phase, results, startPc, announceStream, echo, cm, unitVars, fault, fac,
                   loopVars, ctx, helperVars>>

\* lines 234-251: the goroutine of announce(true) receives a result
announceRecv(x) ==
    /\ announceStream = "open"
    /\ x \in replies
    /\ LET next == TryJoin(ParseComponentRole(RoleOf(x)), x, coordinators, workers)
       IN /\ coordinators' = next[1]
          /\ workers' = next[2]
    /\ replies' = replies \ {x}
    /\ UNCHANGED <<phase, results, startPc, heard, announceStream, echo, cm, unitVars, fault, fac, loopVars,
                   ctx, helperVars>>

\* lines 216 and 238-244: the 2 s deadline of announce(true) expires
announceDeadline ==
    /\ announceStream = "open"
    /\ announceStream' = "done"
    /\ UNCHANGED <<trackerVars, phase, results, startPc, heard, replies, echo, cm, unitVars, fault, fac,
                   loopVars, ctx, helperVars>>

\* lines 162-164 and 332-345: partitionAccumulate returns an error, and Start
\* returns with its deferred cancel(), or starts the loop goroutine
StartCompute ==
    /\ startPc = "announced"
    /\ IF Rejected(cm)
       THEN /\ startPc' = "returned"
            /\ ctx' = IF ctx = "active" THEN "completed" ELSE ctx
            /\ UNCHANGED pc
       ELSE /\ startPc' = "awaiting"
            /\ pc' = "top"
            /\ UNCHANGED ctx
    /\ UNCHANGED <<trackerVars, phase, results, heard, replies, announceStream, echo, cm, unitVars, fault, fac,
                   inRead, inNil, pcProc, pcResubmit, failFast, currentFreeState,
                   accumulated, finalizeCalls, output, helperVars>>

\* lines 168-170: ctx is done and announce(false) publishes the BYE action
StartLeave ==
    /\ startPc = "awaiting"
    /\ ctx # "active"
    /\ startPc' = "left"
    /\ echo' = DataAnnounceLeave
    /\ UNCHANGED <<trackerVars, phase, results, heard, replies, announceStream, cm, unitVars, fault, fac,
                   loopVars, ctx, helperVars>>

\* lines 266-290: the stream of trackCoordinators still returns the
\* coordinator's own BYE before it returns the cancellation
EchoLeave ==
    /\ echo = DataAnnounceLeave
    /\ startPc = "left"
    /\ LET next == Leave(ParseComponentRole(RoleString(RoleCoordinator)), SelfId,
                         coordinators, workers)
       IN /\ coordinators' = next[1]
          /\ workers' = next[2]
    /\ echo' = "none"
    /\ UNCHANGED <<phase, results, startPc, heard, replies, announceStream, cm, unitVars, fault, fac, loopVars,
                   ctx, helperVars>>

\* lines 172-178: three of the four goroutines have finalized (the tracking
\* goroutines return when ctx is done) and Start returns
StartClose ==
    /\ startPc = "left"
    /\ pc = "done" \/ announceStream = "done"
    /\ startPc' = "closed"
    /\ UNCHANGED <<trackerVars, phase, results, heard, replies, announceStream, echo, cm, unitVars, fault, fac,
                   loopVars, ctx, helperVars>>

(* ----------------------------- Worker.Start ---------------------------- *)

\* Start of the coordinator has not returned
Running == startPc \notin {"failed", "returned", "closed"}

\* the workers and peers that start
Starters == {x \in WorkerIds \cup PeerIds : x[2] <= MaxStarters}

\* Worker.trackCoordinators lines 141-144: subscribe to announceCoordinator
workerTrackCoordinators(w) ==
    /\ Running
    /\ w \in Starters
    /\ phase[w] = "new"
    /\ \A u \in WorkerIds : u[2] < w[2] => phase[u] # "new"
    /\ phase' = [phase EXCEPT ![w] = "tracking"]
    /\ UNCHANGED <<trackerVars, results, startVars, cm, unitVars, fault, fac, loopVars, ctx, helperVars>>

\* Worker.subscribePartialComputations lines 171-177
subscribePartialComputations(w) ==
    /\ Running
    /\ phase[w] = "tracking"
    /\ phase' = [phase EXCEPT ![w] = "init"]
    /\ UNCHANGED <<trackerVars, results, startVars, cm, unitVars, fault, fac, loopVars, ctx, helperVars>>

\* a peer's Start comes to line 159 with both subscriptions receiving
peerTrack(p) ==
    /\ Running
    /\ p \in Starters
    /\ phase[p] = "new"
    /\ \A u \in PeerIds : u[2] < p[2] => phase[u] # "new"
    /\ phase' = [phase EXCEPT ![p] = "init"]
    /\ UNCHANGED <<trackerVars, results, startVars, cm, unitVars, fault, fac, loopVars, ctx, helperVars>>

\* an announcement published while the coordinator's subscription is not receiving
Unheard(a) ==
    /\ Running
    /\ IF a.src = RoleString(RoleWorker) THEN ~TracksWorkers ELSE ~TracksCoordinators
    /\ phase' = Announced(a)
    /\ UNCHANGED <<trackerVars, results, startVars, cm, unitVars, fault, fac, loopVars, ctx, helperVars>>

(* ------------------- one worker taken by itself ------------------------ *)

\* the worker whose goroutines are modelled, and the coordinator it hears
WorkerId == <<"w", 1>>

\* correlation ids of the actions delivered to the worker
Correlations == 1..MaxActions

\* Registry.ComputationByName finds the name (pi.go lines 259-282)
Registered(name) == name \in {"fac", "pi", "wf"}

\* the pcomp actions delivered to the worker: a registered computation that
\* succeeds, one that may fail with empty output, one that may decline with
\* nil output, and a computation the worker has not registered
ComputeActions ==
    {[id |-> "fac", params |-> <<"int", 2>>], [id |-> "pi", params |-> <<"K", 0>>],
     [id |-> "wf", params |-> <<"paragraph", 1>>], [id |-> "nop", params |-> <<"int", 2>>]}

\* correlation ids that identify an action the worker holds or has answered
UsedCorrelations ==
    {acts[i].correlation : i \in DOMAIN acts}
        \cup {acs[i].correlation : i \in DOMAIN acs}
        \cup {h.ac.correlation : h \in handling}
        \cup {published.announce[i].correlation : i \in DOMAIN published.announce}
        \cup {published.compute[i].correlation : i \in DOMAIN published.compute}

\* the subscription of Worker.trackCoordinators delivers an action
DeliverAnnouncement(data, k) ==
    /\ k \notin UsedCorrelations
    /\ acts' = Append(acts, [id |-> SelfId, params |-> data, correlation |-> k])
    /\ UNCHANGED <<trackerVars, mutexVars, acs, handling, published, coordinatorVars, running, workerLife, exited, fault, fac>>

\* the shared subscription of subscribePartialComputations delivers an action
DeliverCompute(a, k) ==
    /\ k \notin UsedCorrelations
    /\ acs' = Append(acs, [id |-> a.id, params |-> a.params, correlation |-> k])
    /\ UNCHANGED <<trackerVars, mutexVars, acts, handling, published, coordinatorVars, running, workerLife, exited, fault, fac>>

\* a faulty goroutine that acknowledges every announcement
workerAnnouncementAcked ==
    /\ acts # <<>>
    /\ acts' = Tail(acts)
    /\ published' = [published EXCEPT !.announce =
                        Append(@, [correlation |-> Head(acts).correlation,
                                   context |-> RoleString(RoleWorker), data |-> WorkerId])]
    /\ UNCHANGED <<trackerVars, mutexVars, acs, handling, coordinatorVars, running, workerLife, exited, fault, fac>>

\* Worker.trackCoordinators lines 152-159: one iteration of the goroutine
workerAnnouncement ==
    /\ acts # <<>>
    /\ acts' = Tail(acts)
    /\ IF Head(acts).params = DataAnnounceJoin
       THEN published' = [published EXCEPT !.announce =
                             Append(@, [correlation |-> Head(acts).correlation,
                                        context |-> RoleString(RoleWorker),
                                        data |-> WorkerId])]
       ELSE UNCHANGED published
    /\ UNCHANGED <<trackerVars, mutexVars, acs, handling, coordinatorVars, running, workerLife, exited, fault, fac>>

\* a faulty loop that starts a goroutine for every action it receives
handleConcurrently ==
    /\ acs # <<>>
    /\ acs' = Tail(acs)
    /\ handling' = handling \cup {[pos |-> "called", ac |-> Head(acs), output |-> Nil]}
    /\ UNCHANGED <<trackerVars, mutexVars, acts, published, coordinatorVars, running, workerLife, exited, fault, fac>>

\* subscribePartialComputations lines 186-188: the goroutine receives the
\* next action when handlePartialComputation has returned
handleNext ==
    /\ acs # <<>>
    /\ handling = {}
    /\ acs' = Tail(acs)
    /\ handling' = {[pos |-> "called", ac |-> Head(acs), output |-> Nil]}
    /\ UNCHANGED <<trackerVars, mutexVars, acts, published, coordinatorVars, running, workerLife, exited, fault, fac>>

\* handlePartialComputation lines 198-202: the computation is looked up
handleLookup(h) ==
    /\ h \in handling
    /\ h.pos = "called"
    /\ handling' = IF Registered(h.ac.id)
                   THEN (handling \ {h}) \cup {[h EXCEPT !.pos = "computing"]}
                   ELSE handling \ {h}
    /\ UNCHANGED <<trackerVars, mutexVars, acts, acs, published, coordinatorVars, running, workerLife, exited, fault, fac>>

\* a faulty handler that publishes a nil output as empty data
handleComputeNoSkip(h) ==
    /\ h \in handling
    /\ h.pos = "computing"
    /\ \E out \in PartialCompute([name |-> h.ac.id], h.ac.params) :
           handling' = (handling \ {h}) \cup
               {[h EXCEPT !.pos = "computed", !.output = IF out = Nil THEN Empty ELSE out]}
    /\ UNCHANGED <<trackerVars, mutexVars, acts, acs, published, coordinatorVars, running, workerLife, exited, fault, fac>>

\* handlePartialComputation lines 206-210: PartialCompute returns
handleCompute(h) ==
    /\ h \in handling
    /\ h.pos = "computing"
    /\ \E out \in PartialCompute([name |-> h.ac.id], h.ac.params) :
           handling' = IF out = Nil
                       THEN handling \ {h}
                       ELSE (handling \ {h}) \cup
                                {[h EXCEPT !.pos = "computed", !.output = out]}
    /\ UNCHANGED <<trackerVars, mutexVars, acts, acs, published, coordinatorVars, running, workerLife, exited, fault, fac>>

\* handlePartialComputation lines 214-219: the result is published
handlePublish(h) ==
    /\ h \in handling
    /\ h.pos = "computed"
    /\ handling' = handling \ {h}
    /\ published' = [published EXCEPT !.compute =
                        Append(@, [correlation |-> h.ac.correlation,
                                   context |-> WorkerId, data |-> h.output])]
    /\ UNCHANGED <<trackerVars, mutexVars, acts, acs, coordinatorVars, running, workerLife, exited, fault, fac>>

(* ----------------------------- FacComputation -------------------------- *)

\* strconv.FormatUint(i, 10): the decimal digits of i, most significant first
RECURSIVE FormatUint(_)
FormatUint(i) == IF i < 10 THEN <<i>> ELSE Append(FormatUint(i \div 10), i % 10)

\* strconv.ParseUint(s, 10, 0): <<n>>, or <<>> for the error on an empty string
RECURSIVE ParseUint(_)
ParseUint(s) ==
    IF s = <<>> THEN <<>>
    ELSE IF Len(s) = 1 THEN <<s[1]>>
    ELSE <<10 * ParseUint(SubSeq(s, 1, Len(s) - 1))[1] + s[Len(s)]>>

\* part_009 lines 52-58: the goroutine sends the next input on the channel
FacEmit ==
    /\ ~fac.closed
    /\ fac.i <= cm.n
    /\ fac' = [fac EXCEPT !.sent = Append(@, FormatUint(fac.i)), !.i = @ + 1]
    /\ UNCHANGED <<trackerVars, coordinatorVars, unitVars, fault>>

\* part_009 lines 53-54: the loop has ended and the deferred close(in) runs
FacClose ==
    /\ ~fac.closed
    /\ fac.i > cm.n
    /\ fac' = [fac EXCEPT !.closed = TRUE]
    /\ UNCHANGED <<trackerVars, coordinatorVars, unitVars, fault>>

\* part_009 lines 63-66: a worker computes the k-th input
FacCompute(k) ==
    /\ k = Len(fac.outputs) + 1
    /\ k <= Len(fac.sent)
    /\ \E out \in FacPartialCompute(fac.sent[k]) :
           fac' = [fac EXCEPT !.outputs = Append(@, out)]
    /\ UNCHANGED <<trackerVars, coordinatorVars, unitVars, fault>>

\* a faulty Accumulate that adds the output to the result
FacAccumulateAdding(k) ==
    /\ k \in 1..Len(fac.outputs)
    /\ k \notin fac.done
    /\ LET n == ParseUint(fac.outputs[k])
       IN fac' = [fac EXCEPT !.done = @ \cup {k},
                             !.result = IF n = <<>> THEN @ ELSE @ + n[1]]
    /\ UNCHANGED <<trackerVars, coordinatorVars, unitVars, fault>>

\* part_009 lines 72-78: Accumulate is called with the output of the k-th
\* input, in whatever order the outputs arrive
FacAccumulate(k) ==
    /\ k \in 1..Len(fac.outputs)
    /\ k \notin fac.done
    /\ LET n == ParseUint(fac.outputs[k])
       IN fac' = [fac EXCEPT !.done = @ \cup {k},
                             !.result = IF n = <<>> THEN @ ELSE @ * n[1]]
    /\ UNCHANGED <<trackerVars, coordinatorVars, unitVars, fault>>

\* part_009 lines 80-83, called once the channel is closed and every
\* input has been accumulated (common.go lines 396-399 and 441-443)
FacFinalize ==
    /\ fac.closed
    /\ fac.done = 1..Len(fac.sent)
    /\ fac.printed = <<>>
    /\ fac' = [fac EXCEPT !.printed = <<fac.result>>]
    /\ UNCHANGED <<trackerVars, coordinatorVars, unitVars, fault>>

(* ------------------- Coordinator.announce, failing --------------------- *)

\* lines 159 or 170 and 223-226: PublishAction of announce(true) or of
\* announce(false) returns an error, which is logged; there is no stream
announceFails ==
    /\ \/ startPc = "trackingWorkers"
       \/ startPc = "awaiting" /\ ctx # "active"
    /\ startPc' = "publishFailed"
    /\ UNCHANGED <<trackerVars, phase, results, heard, replies, announceStream, echo, cm, unitVars,
                   fault, fac, loopVars, ctx, helperVars>>

\* line 227: stream.Header() is called on the nil stream; the panic ends
\* the process with exit status 2
announceNilStream ==
    /\ startPc = "publishFailed"
    /\ fault = "none"
    /\ fault' = "panic"
    /\ exited' = <<2>>
    /\ UNCHANGED <<trackerVars, coordinatorVars, mutexVars, workerVars, running, workerLife, fac>>

(* --------------------------- main (coordinator) ------------------------ *)

\* worker.go lines 143-146: help is asked for or no computation is named;
\* usage is shown and the process exits with os.Exit(0)
MainHelp ==
    /\ exited = <<>>
    /\ startPc = "new"
    /\ output' = Append(output, "usage")
    /\ exited' = <<0>>
    /\ UNCHANGED <<trackerVars, envVars, cm, mutexVars, workerVars, running, workerLife, fault, fac,
                   inRead, inNil, pcProc, pcResubmit, failFast, currentFreeState, pc,
                   accumulated, finalizeCalls, ctx, helperVars>>

\* worker.go lines 175-184 and common.go lines 127-132: Start has returned
\* and closed completed; main returns from its loop, so the process exits
\* with status 0
MainReturn ==
    /\ exited = <<>>
    /\ startPc \in {"failed", "returned", "closed"}
    /\ exited' = <<0>>
    /\ UNCHANGED <<trackerVars, coordinatorVars, mutexVars, workerVars, running, workerLife, fault, fac>>

(* --------------------- Worker.Start, step by step ---------------------- *)

\* lines 54-62: initDda and w.dda.Open
WorkerOpen ==
    /\ wPc = "new"
    /\ wPc' = "open"
    /\ UNCHANGED <<trackerVars, mutexVars, workerVars, wCanceled, wTasks, wEvents,
                   coordinatorVars, running, exited, fault, fac>>

\* line 65: trackCoordinators subscribes and starts its goroutine
WorkerTrack ==
    /\ wPc = "open"
    /\ wPc' = "tracking"
    /\ wTasks' = [wTasks EXCEPT !.track = "running"]
    /\ UNCHANGED <<trackerVars, mutexVars, workerVars, wCanceled, wEvents,
                   coordinatorVars, running, exited, fault, fac>>

\* line 70: subscribePartialComputations subscribes and starts its goroutine
WorkerSubscribe ==
    /\ wPc = "tracking"
    /\ wPc' = "subscribed"
    /\ wTasks' = [wTasks EXCEPT !.compute = "running"]
    /\ UNCHANGED <<trackerVars, mutexVars, workerVars, wCanceled, wEvents,
                   coordinatorVars, running, exited, fault, fac>>

\* lines 54-73: an initialization yields an error and Start returns
WorkerStartFails ==
    /\ wPc \in {"new", "open", "tracking"}
    /\ wPc' = "failed"
    /\ UNCHANGED <<trackerVars, mutexVars, workerVars, wCanceled, wTasks, wEvents,
                   coordinatorVars, running, exited, fault, fac>>

\* line 75: announce(true)
WorkerJoin ==
    /\ wPc = "subscribed"
    /\ wPc' = "serving"
    /\ wEvents' = Append(wEvents, DataAnnounceJoin)
    /\ UNCHANGED <<trackerVars, mutexVars, workerVars, wCanceled, wTasks,
                   coordinatorVars, running, exited, fault, fac>>

\* a termination signal cancels the context given to Start
WorkerCancel ==
    /\ ~wCanceled
    /\ wPc \notin {"failed", "closed"}
    /\ wCanceled' = TRUE
    /\ UNCHANGED <<trackerVars, mutexVars, workerVars, wPc, wTasks, wEvents,
                   coordinatorVars, running, exited, fault, fac>>

\* lines 77-79: ctx is done and announce(false) publishes the BYE event
WorkerLeave ==
    /\ wPc = "serving"
    /\ wCanceled
    /\ wPc' = "left"
    /\ wEvents' = Append(wEvents, DataAnnounceLeave)
    /\ UNCHANGED <<trackerVars, mutexVars, workerVars, wCanceled, wTasks,
                   coordinatorVars, running, exited, fault, fac>>

\* lines 152-161: the channel of announcements is closed and the goroutine
\* of trackCoordinators comes to its deferred finalize
trackEnds ==
    /\ wTasks.track = "running"
    /\ wCanceled
    /\ wTasks' = [wTasks EXCEPT !.track = "finalizing"]
    /\ acts' = <<>>
    /\ UNCHANGED <<trackerVars, mutexVars, acs, handling, published, wPc, wCanceled, wEvents,
                   coordinatorVars, running, exited, fault, fac>>

\* lines 187-190: the channel of pcomp actions is closed and the goroutine
\* of subscribePartialComputations, not handling an action, comes to its
\* deferred finalize
computeEnds ==
    /\ wTasks.compute = "running"
    /\ wCanceled
    /\ handling = {}
    /\ wTasks' = [wTasks EXCEPT !.compute = "finalizing"]
    /\ acs' = <<>>
    /\ UNCHANGED <<trackerVars, mutexVars, acts, handling, published, wPc, wCanceled, wEvents,
                   coordinatorVars, running, exited, fault, fac>>

\* lines 85-86: Start receives from w.finalized what a goroutine sends
WorkerAwait(task) ==
    /\ wPc \in {"left", "awaited1"}
    /\ wTasks[task] = "finalizing"
    /\ wTasks' = [wTasks EXCEPT ![task] = "finished"]
    /\ wPc' = IF wPc = "left" THEN "awaited1" ELSE "awaited2"
    /\ UNCHANGED <<trackerVars, mutexVars, workerVars, wCanceled, wEvents,
                   coordinatorVars, running, exited, fault, fac>>

\* a faulty Start that returns without receiving from w.finalized
WorkerCloseEarly ==
    /\ wPc \in {"left", "awaited1", "awaited2"}
    /\ wPc' = "closed"
    /\ UNCHANGED <<trackerVars, mutexVars, workerVars, wCanceled, wTasks, wEvents,
                   coordinatorVars, running, exited, fault, fac>>

\* lines 46-51 and 87: Start returns and the deferred w.dda.Close() runs
WorkerClose ==
    /\ wPc = "awaited2"
    /\ wPc' = "closed"
    /\ UNCHANGED <<trackerVars, mutexVars, workerVars, wCanceled, wTasks, wEvents,
                   coordinatorVars, running, exited, fault, fac>>

(* --------------------------- specifications ---------------------------- *)

\* no method of the tracker or of cm is being called, and the worker holds no action
\* part_009 lines 44-45 and 55: the computation after Partition set
\* c.result to 1 and before its goroutine entered the loop
NewFac ==
    [i |-> 2, sent |-> <<>>, closed |-> FALSE, outputs |-> <<>>, done |-> {},
     result |-> 1, printed |-> <<>>]

InitUnits ==
    /\ call = NoCall
    /\ mu = "free"
    /\ countPc = "idle"
    /\ counted = <<0, 0>>
    /\ acts = <<>>
    /\ acs = <<>>
    /\ handling = {}
    /\ published = [announce |-> <<>>, compute |-> <<>>]
    /\ running = EmptyBag
    /\ wPc = "new"
    /\ wCanceled = FALSE
    /\ wTasks = [track |-> "none", compute |-> "none"]
    /\ wEvents = <<>>
    /\ exited = <<>>
    /\ fault = "none"
    /\ fac = NewFac

Requests ==
    {[name |-> "fac", n |-> k] : k \in 0..MaxFacArg}
        \cup {[name |-> "pi", n |-> k] : k \in 1..MaxPiIter}

InitLoop ==
    /\ results = {}
    /\ inRead = 0
    /\ inNil = FALSE
    /\ pcProc = 0
    /\ pcResubmit = <<>>
    /\ failFast = FALSE
    /\ currentFreeState = [cc |-> 0, cw |-> 0, pcProc |-> 0]
    /\ pc = "top"
    /\ ctx = "active"
    /\ awaiting = EmptyBag
    /\ sending = EmptyBag
    /\ accumulated = EmptyBag
    /\ finalizeCalls = 0
    /\ output = <<>>

\* Start has come to line 168 and the response stream of announce(true) is over
Started ==
    /\ startPc = "awaiting"
    /\ heard = {}
    /\ replies = {}
    /\ announceStream = "done"
    /\ echo = "none"

Init ==
    /\ coordinators = {SelfId}
    /\ workers = {}
    /\ phase = [x \in WorkerIds \cup PeerIds |-> "init"]
    /\ cm \in Requests
    /\ InitLoop
    /\ Started
    /\ InitUnits

Tracking ==
    \/ \E evt \in WorkerEvents : trackWorkers(evt) /\ UNCHANGED startVars
    \/ \E ac \in CoordinatorActions : trackCoordinators(ac) /\ UNCHANGED startVars

\* the loop goroutine without the termination signal
Dispatching ==
    \/ LoopTop
    \/ SelectIn
    \/ SelectResubmit
    \/ \E res \in BagToSet(sending) : SelectCompleted(res)
    \/ SelectDefault
    \/ Epilogue

Loop == Dispatching \/ SelectCtxDone

Helpers ==
    \/ \E input \in BagToSet(awaiting) :
           \E out \in PartialCompute(cm, input) : HelperResult(input, out)
    \/ \E input \in BagToSet(awaiting) : HelperDeadline(input)
    \/ \E input \in BagToSet(awaiting) : HelperError(input)
    \/ \E input \in BagToSet(awaiting) : HelperCanceled(input)

Next == Tracking \/ Terminate \/ Loop \/ Helpers

Spec == Init /\ [][Next]_vars

(* A wf request with more paragraphs than the resubmit queue holds, under a *)
(* census that does not change while the request runs.                     *)

LongRequests ==
    {[name |-> "wf", n |-> k] : k \in (ResubmitCap + 1)..(ResubmitCap + MaxExtra)}

InitOverflow ==
    /\ coordinators = {SelfId}
    /\ \E k \in 0..MaxWorkers :
           /\ workers = {w \in WorkerIds : w[2] <= k}
           /\ phase = [x \in WorkerIds \cup PeerIds |->
                          IF x \in WorkerIds /\ x[2] <= k THEN "serving" ELSE "init"]
    /\ cm \in LongRequests
    /\ InitLoop
    /\ Started
    /\ InitUnits

NextOverflow == Dispatching \/ Helpers

SpecOverflow == InitOverflow /\ [][NextOverflow]_vars

(* Scheduling.  The loop goroutine keeps running; a select with several    *)
(* ready cases picks one of them at random, so no case that is ready again *)
(* and again is passed over forever; the partition goroutine sends or      *)
(* closes; the deadline of a waiting helper expires and a cancelled helper *)
(* returns.  Workers and peers need not announce anything.                 *)

Fairness ==
    /\ WF_vars(Loop)
    /\ SF_vars(SelectCtxDone)
    /\ SF_vars(SelectIn)
    /\ SF_vars(SelectResubmit)
    /\ SF_vars(\E res \in BagToSet(sending) : SelectCompleted(res))
    /\ WF_vars(\E input \in BagToSet(awaiting) : HelperDeadline(input))
    /\ WF_vars(\E input \in BagToSet(awaiting) : HelperCanceled(input))

SpecFair == Init /\ [][Next]_vars /\ Fairness

\* the substrate drops every pcomp action: no result arrives, a dispatch ends
\* by its deadline
NextDrop ==
    \/ Dispatching
    \/ \E input \in BagToSet(awaiting) : HelperDeadline(input)
    \/ \E input \in BagToSet(awaiting) : HelperCanceled(input)

SpecDrop == InitOverflow /\ [][NextDrop]_vars /\ Fairness

\* no result of a dispatched partial ever arrives (the worker declines, the
\* action or its result is lost): a helper returns only by its deadline or by
\* cancellation
NextLost ==
    \/ Tracking
    \/ Terminate
    \/ Loop
    \/ \E input \in BagToSet(awaiting) : HelperDeadline(input)
    \/ \E input \in BagToSet(awaiting) : HelperCanceled(input)

SpecLost == Init /\ [][NextLost]_vars /\ Fairness

(* Lifecycle: the coordinator, its peers and the workers start and leave in *)
(* any order; the request has no inputs or is rejected.                     *)

LifeRequests == {[name |-> "fac", n |-> 0], [name |-> "pi", n |-> 0]}

InitLife ==
    /\ coordinators = {}
    /\ workers = {}
    /\ phase = [x \in WorkerIds \cup PeerIds |-> "new"]
    /\ cm \in LifeRequests
    /\ results = {}
    /\ inRead = 0
    /\ inNil = FALSE
    /\ pcProc = 0
    /\ pcResubmit = <<>>
    /\ failFast = FALSE
    /\ currentFreeState = [cc |-> 0, cw |-> 0, pcProc |-> 0]
    /\ pc = "idle"
    /\ ctx = "active"
    /\ awaiting = EmptyBag
    /\ sending = EmptyBag
    /\ accumulated = EmptyBag
    /\ finalizeCalls = 0
    /\ output = <<>>
    /\ startPc = "new"
    /\ heard = {}
    /\ replies = {}
    /\ announceStream = "none"
    /\ echo = "none"
    /\ InitUnits

Starting ==
    \/ StartJoin
    \/ SubscribeCoordinators
    \/ SubscribeWorkers
    \/ StartFails
    \/ announceJoin
    \/ StartCompute
    \/ StartLeave
    \/ StartClose

Announcing ==
    \/ EchoJoin
    \/ EchoLeave
    \/ \E x \in heard : Reply(x)
    \/ \E x \in replies : announceRecv(x)
    \/ announceDeadline

Joining ==
    \/ \E w \in WorkerIds : workerTrackCoordinators(w)
    \/ \E w \in WorkerIds : subscribePartialComputations(w)
    \/ \E p \in PeerIds : peerTrack(p)
    \/ \E a \in WorkerEvents \cup CoordinatorActions : Unheard(a)

TrackingLife ==
    \/ TracksWorkers /\ \E evt \in WorkerEvents : trackWorkers(evt) /\ UNCHANGED startVars
    \/ TracksCoordinators /\ \E ac \in CoordinatorActions :
           trackCoordinators(ac) /\ UNCHANGED startVars

LoopLife ==
    \/ LoopTop
    \/ SelectCtxDone
    \/ SelectIn
    \/ SelectDefault
    \/ Epilogue

NextLife == Starting \/ Announcing \/ Joining \/ TrackingLife \/ Terminate \/ LoopLife

SpecLife == InitLife /\ [][NextLife]_vars

\* the same up to the start of the loop goroutine, without a termination signal
NextJoin ==
    \/ StartJoin
    \/ SubscribeCoordinators
    \/ SubscribeWorkers
    \/ StartFails
    \/ announceJoin
    \/ StartCompute
    \/ EchoJoin
    \/ \E x \in heard : Reply(x)
    \/ \E x \in replies : announceRecv(x)
    \/ announceDeadline
    \/ Joining
    \/ TrackingLife

SpecJoin == InitLife /\ [][NextJoin]_vars

(* The coordinator has started and computes a request without inputs; it  *)
(* ends by itself or by a termination signal, and Start goes on to leave.  *)

InitLeave ==
    /\ coordinators = {SelfId}
    /\ workers = {}
    /\ phase = [x \in WorkerIds \cup PeerIds |-> "init"]
    /\ cm = [name |-> "fac", n |-> 0]
    /\ InitLoop
    /\ Started
    /\ InitUnits

NextLeave ==
    \/ Tracking
    \/ Terminate
    \/ LoopLife
    \/ StartLeave
    \/ EchoLeave
    \/ StartClose

SpecLeave == InitLeave /\ [][NextLeave]_vars

(* The loop with the calls of Accumulate and Finalize taken step by step,  *)
(* under a census of all workers and the coordinator alone.               *)

InitSerial ==
    /\ coordinators = {SelfId}
    /\ workers = WorkerIds
    /\ phase = [x \in WorkerIds \cup PeerIds |-> IF x \in WorkerIds THEN "serving" ELSE "init"]
    /\ cm \in Requests
    /\ InitLoop
    /\ Started
    /\ InitUnits

LoopSerial ==
    \/ LoopTop
    \/ SelectCtxDone
    \/ SelectIn
    \/ SelectResubmit
    \/ \E res \in BagToSet(sending) :
           (res.resubmit \/ IsError(res.data)) /\ SelectCompleted(res)
    \/ \E res \in BagToSet(sending) : AccumulateCall(res)
    \/ AccumulateReturn
    \/ SelectDefault
    \/ ~Succeeded(failFast) /\ Epilogue
    \/ FinalizeCall
    \/ FinalizeReturn

NextSerial == LoopSerial \/ Terminate \/ Helpers

SpecSerial == InitSerial /\ [][NextSerial]_vars

(* The methods of a new tracker are called by concurrent goroutines with   *)
(* any roles and ids.                                                      *)

InitTracker ==
    /\ InitLife
    /\ cm = [name |-> "fac", n |-> 0]

Calling ==
    \/ \E op \in {"TryJoin", "Leave"}, role \in TrackerRoles, id \in TrackerIds :
           TrackerLock(op, role, id)
    \/ TryJoinReturn
    \/ LeaveReturn

Counting ==
    \/ CountRLock
    \/ CountLenC
    \/ CountLenW
    \/ CountReturn

NextTracker == Calling \/ Counting

SpecTracker == InitTracker /\ [][NextTracker]_vars

(* A started worker receives announcements of a coordinator and partial    *)
(* computations.                                                           *)

Delivering ==
    \/ \E data \in {DataAnnounceJoin, DataAnnounceLeave}, k \in Correlations :
           DeliverAnnouncement(data, k)
    \/ \E a \in ComputeActions, k \in Correlations : DeliverCompute(a, k)

Handling ==
    \/ workerAnnouncement
    \/ handleNext
    \/ \E h \in handling : handleLookup(h)
    \/ \E h \in handling : handleCompute(h)
    \/ \E h \in handling : handlePublish(h)

NextWorker == Delivering \/ Handling

SpecWorker == InitTracker /\ [][NextWorker]_vars

(* A worker starts, serves announcements and partial computations, and   *)
(* shuts down on a termination signal.                                     *)

WorkerStarting ==
    \/ WorkerOpen
    \/ WorkerTrack
    \/ WorkerSubscribe
    \/ WorkerStartFails
    \/ WorkerJoin
    \/ WorkerCancel
    \/ WorkerLeave
    \/ \E task \in {"track", "compute"} : WorkerAwait(task)
    \/ WorkerClose

WorkerServing ==
    \/ /\ wTasks.track = "running"
       /\ ~wCanceled
       /\ \E data \in {DataAnnounceJoin, DataAnnounceLeave}, k \in Correlations :
              DeliverAnnouncement(data, k)
    \/ /\ wTasks.compute = "running"
       /\ ~wCanceled
       /\ \E a \in ComputeActions, k \in Correlations : DeliverCompute(a, k)
    \/ wTasks.track = "running" /\ workerAnnouncement
    \/ wTasks.compute = "running" /\ handleNext
    \/ \E h \in handling : handleLookup(h)
    \/ \E h \in handling : handleCompute(h)
    \/ \E h \in handling : handlePublish(h)
    \/ trackEnds
    \/ computeEnds

NextWorkerLife == WorkerStarting \/ WorkerServing

SpecWorkerLife == InitTracker /\ [][NextWorkerLife]_vars

(* The coordinator process from the call of main to its exit, with no     *)
(* worker and no other coordinator around.                                 *)

NextMain ==
    \/ MainHelp
    \/ MainReturn
    \/ exited = <<>> /\ StartJoin
    \/ exited = <<>> /\ SubscribeCoordinators
    \/ exited = <<>> /\ SubscribeWorkers
    \/ exited = <<>> /\ StartFails
    \/ exited = <<>> /\ announceJoin
    \/ exited = <<>> /\ EchoJoin
    \/ exited = <<>> /\ announceDeadline
    \/ exited = <<>> /\ StartCompute
    \/ exited = <<>> /\ StartLeave
    \/ exited = <<>> /\ EchoLeave
    \/ exited = <<>> /\ StartClose
    \/ exited = <<>> /\ Terminate
    \/ exited = <<>> /\ LoopTop
    \/ exited = <<>> /\ SelectCtxDone
    \/ exited = <<>> /\ SelectDefault
    \/ exited = <<>> /\ Epilogue
    \/ exited = <<>> /\ announceFails
    \/ announceNilStream

SpecMain == InitLife /\ [][NextMain]_vars

(* The factorial of every argument up to MaxFacN, its partial results      *)
(* accumulated in every order.                                             *)

InitFac ==
    /\ coordinators = {SelfId}
    /\ workers = WorkerIds
    /\ phase = [x \in WorkerIds \cup PeerIds |-> IF x \in WorkerIds THEN "serving" ELSE "init"]
    /\ cm \in {[name |-> "fac", n |-> k] : k \in 0..MaxFacN}
    /\ InitLoop
    /\ Started
    /\ InitUnits

NextFac ==
    \/ FacEmit
    \/ FacClose
    \/ \E k \in 1..MaxFacN : FacCompute(k)
    \/ \E k \in 1..MaxFacN : FacAccumulate(k)
    \/ FacFinalize

SpecFac == InitFac /\ [][NextFac]_vars

(* The tracker of a coordinator that receives announcements and join      *)
(* replies with any role string; a panic ends the process.                 *)

RoleStrings == {"coordinator", "worker", "observer"}

NextForeign ==
    \/ /\ fault = "none"
       /\ \E src \in RoleStrings, data \in {DataAnnounceJoin, DataAnnounceLeave},
              id \in TrackerIds : TrackerCallFor(src, data, id)
    \/ TryJoinReturn
    \/ TryJoinPanic
    \/ LeaveReturn
    \/ fault = "none" /\ CountRLock
    \/ fault = "none" /\ CountLenC
    \/ fault = "none" /\ CountLenW
    \/ fault = "none" /\ CountReturn

SpecForeign == InitTracker /\ [][NextForeign]_vars

(* ------------------------------ claims --------------------------------- *)

Max(a, b) == IF a >= b THEN a ELSE b

\* the bag of the outputs of error-free partial computations of all emitted inputs
ExpectedOutputs ==
    LET ins == Partition(cm)
        outs == {Computed(cm, ins[i]) : i \in DOMAIN ins}
    IN [o \in outs |-> Cardinality({i \in DOMAIN ins : Computed(cm, ins[i]) = o})]

\* integer W/C of the tracker as it is now
CurrentShare ==
    IF Count(coordinators, workers)[1] = 0 THEN 0
    ELSE Count(coordinators, workers)[2] \div Count(coordinators, workers)[1]

\* integer W/C of the snapshot taken at the top of the iteration
SnapshotShare ==
    IF currentFreeState.cc = 0 THEN 0 ELSE currentFreeState.cw \div currentFreeState.cc

\* a step that dispatches a partial: the in-flight count grows
Dispatches == pcProc' > pcProc

\* C1: when the loop ends with Finalize, the bag of outputs passed to
\* Accumulate is the bag of PartialCompute(i) over the inputs i emitted by
\* Partition: each emitted input was accumulated exactly once, whatever
\* deadlines, transport errors and resubmissions happened on the way.
C1_AccumulatedOnce == finalizeCalls > 0 => accumulated = ExpectedOutputs

C1_Witness ==
    /\ finalizeCalls = 1
    /\ pc = "done"
    /\ BagCardinality(accumulated) = 2

\* C2: Finalize is called iff the loop is left with failFast = FALSE, and at
\* most once; when the loop is left with failFast = TRUE the failure line is
\* written and Finalize is not called; before the loop is left neither happens.
C2_FinalizeExclusive ==
    /\ finalizeCalls <= 1
    /\ pc # "done" => finalizeCalls = 0 /\ output = <<>>
    /\ pc = "done" /\ failFast => finalizeCalls = 0 /\ output = <<"failed">>
    /\ pc = "done" /\ ~failFast => finalizeCalls = 1 /\ output = <<"result">>

C2_Witness ==
    /\ pc = "done"
    /\ failFast
    /\ output = <<"failed">>
    /\ ctx = "signal"

\* C3 as stated: between two iterations the in-flight count is at most
\* max(1, W/C) for the counts the tracker holds in that state.
C3_Original == pc = "top" => pcProc <= Max(1, CurrentShare)

\* C3 as amended: every dispatch leaves the in-flight count at most W/C for
\* the counts of the tracker snapshot taken at the top of that iteration.
C3_DispatchBound == [][Dispatches => pcProc' <= SnapshotShare]_vars

C3_Witness ==
    /\ pc = "top"
    /\ pcProc = 2
    /\ SnapshotShare = 2
    /\ CurrentShare < 2

\* C4: an iteration dispatches (from the partition channel or from the
\* resubmit queue) only if Free() > 0 for the snapshot taken at the top of
\* that iteration, whose pcProc is the in-flight count; with Free() <= 0 the
\* iteration reads neither channel: it can only take a completion, observe
\* cancellation or fall through the default.
C4_Suspended ==
    /\ [](pc = "select" => currentFreeState.pcProc = pcProc)
    /\ [][Dispatches => pc = "select" /\ Free(currentFreeState) > 0]_vars
    /\ [][pc = "select" /\ Free(currentFreeState) <= 0 =>
            /\ inRead' = inRead
            /\ inNil' = inNil
            /\ Len(pcResubmit') >= Len(pcResubmit)
            /\ pcProc' <= pcProc]_vars

C4_Witness ==
    /\ pc = "select"
    /\ Free(currentFreeState) <= 0
    /\ currentFreeState.cw >= 1
    /\ inRead < Len(Partition(cm))
    /\ pcResubmit # <<>>

\* C5: the number of dispatched but not yet completed partial computations
\* never exceeds the number of workers that have joined and not left.
C5_Claim == pcProc <= Cardinality({w \in WorkerIds : phase[w] = "serving"})

\* C6: Finalize is only called when the partition channel has been seen
\* closed, the resubmit queue is empty and nothing is in flight: no input is
\* unread, queued or with a helper when the loop is left without fast failure.
C6_FinalizeWhenDrained ==
    (pc \in {"break", "done"} /\ ~failFast) =>
        /\ inNil
        /\ inRead = Len(Partition(cm))
        /\ pcResubmit = <<>>
        /\ pcProc = 0
        /\ awaiting = EmptyBag
        /\ sending = EmptyBag

C6_Witness ==
    /\ pc = "break"
    /\ ~failFast
    /\ inRead >= 1
    /\ finalizeCalls = 0

\* C7: when Partition emits no input (fac with argument 0) the coordinator
\* eventually calls Finalize, unless a termination signal arrives, for every
\* census, also one without workers.
C7_Claim == Len(Partition(cm)) = 0 => <>(finalizeCalls = 1 \/ ctx = "signal")

\* C8: receiving a result with empty data sets failFast and leaves the loop
\* in that iteration without accumulating; once failFast is set nothing is
\* accumulated or dispatched any more, Finalize is not called and the loop
\* ends with the failure line.
C8_EmptyFailsFast ==
    /\ [][(\E res \in BagToSet(sending) :
              /\ ~res.resubmit
              /\ res.data = Empty
              /\ sending' = sending (-) SetToBag({res}))
          => failFast' /\ pc' = "break" /\ accumulated' = accumulated]_vars
    /\ [][failFast =>
            /\ failFast'
            /\ accumulated' = accumulated
            /\ ~Dispatches
            /\ inRead' = inRead
            /\ pcResubmit' = pcResubmit
            /\ finalizeCalls' = 0
            /\ pc' \in {"break", "done"}]_vars
    /\ [](pc = "done" /\ failFast => output = <<"failed">>)

C8_Witness ==
    /\ pc = "done"
    /\ failFast
    /\ ctx = "completed"
    /\ cm.name = "pi"
    /\ pcProc >= 1
    /\ BagCardinality(accumulated) = 0
    /\ output = <<"failed">>

\* C9: the resubmit queue never holds more than 100 inputs; a Resubmit
\* completion received while it holds 100 sets failFast and leaves the loop
\* with the queue unchanged; one received while it holds fewer is appended
\* without fast failure.
C9_QueueBound ==
    /\ [](Len(pcResubmit) <= ResubmitCap)
    /\ [][\A res \in BagToSet(sending) :
              (res.resubmit /\ sending' = sending (-) SetToBag({res})) =>
                  IF Len(pcResubmit) = ResubmitCap
                  THEN failFast' /\ pc' = "break" /\ pcResubmit' = pcResubmit
                  ELSE /\ pcResubmit' = Append(pcResubmit, res.data)
                       /\ ~failFast'
                       /\ pc' = "top"]_vars
    /\ [](pc = "done" /\ failFast => finalizeCalls = 0)

C9_Witness ==
    /\ Len(pcResubmit) = ResubmitCap
    /\ failFast
    /\ pc = "done"
    /\ finalizeCalls = 0
    /\ BagCardinality(accumulated) >= 1

\* C10 as stated: when every pcomp action is dropped and Partition emits more
\* than 100 inputs, the coordinator eventually fails fast and its loop ends.
C10_Original == <>(pc = "done" /\ failFast)

\* C10 as amended: it does so when the census gives it a share W/C of at
\* least 1 and the number of inputs is at least 100 + W/C.
C10_Overflow ==
    (CurrentShare >= 1 /\ cm.n >= ResubmitCap + CurrentShare) =>
        <>(pc = "done" /\ failFast /\ Len(pcResubmit) = ResubmitCap)

C10_Witness ==
    /\ pc = "done"
    /\ failFast
    /\ Len(pcResubmit) = ResubmitCap
    /\ CurrentShare >= 1

\* the inputs Partition emits for the request
Inputs == {Partition(cm)[i] : i \in DOMAIN Partition(cm)}

\* C11: a dispatch that ends with a deadline, transport or end-of-stream
\* error sends a completion carrying exactly the input of that dispatch; a
\* Resubmit completion that is queued appends exactly its data at the tail of
\* the resubmit queue; a re-dispatch takes the head of the queue and publishes
\* exactly that input; so the queue and the dispatches in flight only ever
\* hold inputs emitted by Partition.
C11_ResubmitOriginal ==
    /\ [][\A input \in BagToSet(awaiting) :
              (/\ awaiting' = awaiting (-) SetToBag({input})
               /\ sending' # sending
               /\ \A out \in PartialCompute(cm, input) :
                      sending' # sending (+) SetToBag({partialResult(out, FALSE)}))
              => sending' = sending (+) SetToBag({[data |-> input, resubmit |-> TRUE]})]_vars
    /\ [][Len(pcResubmit') > Len(pcResubmit) =>
              \E res \in BagToSet(sending) :
                  /\ res.resubmit
                  /\ sending' = sending (-) SetToBag({res})
                  /\ pcResubmit' = Append(pcResubmit, res.data)]_vars
    /\ [][Len(pcResubmit') < Len(pcResubmit) =>
              /\ pcResubmit' = Tail(pcResubmit)
              /\ awaiting' = awaiting (+) SetToBag({Head(pcResubmit)})
              /\ pcProc' = pcProc + 1]_vars
    /\ [](/\ \A i \in DOMAIN pcResubmit : pcResubmit[i] \in Inputs
          /\ \A input \in BagToSet(awaiting) : input \in Inputs
          /\ \A res \in BagToSet(sending) : res.resubmit => res.data \in Inputs)

\* two different inputs wait in the queue in the order of their failures,
\* the later emitted one first, and the worker share allows a re-dispatch
C11_Witness ==
    /\ Len(pcResubmit) = 2
    /\ pcResubmit[1] = Partition(cm)[2]
    /\ pcResubmit[2] = Partition(cm)[1]
    /\ pc = "select"
    /\ Unblocked(currentFreeState)

\* C12: for every registered computation a dispatched partial for which no
\* result arrives eventually produces a Resubmit completion by the expiry of
\* PartialComputeTimeout, unless the coordinator's context is done first.
C12_Claim ==
    \A r \in Requests : \A i \in DOMAIN Partition(r) :
        (cm = r /\ BagIn(Partition(r)[i], awaiting))
            ~> (\/ BagIn([data |-> Partition(r)[i], resubmit |-> TRUE], sending)
                \/ ctx # "active")

Delivered ==
    /\ startPc = "awaiting"
    /\ ctx = "active"
    /\ heard \cap Responders = {}
    /\ replies = {}

\* C14: when all announcements and replies have been delivered (the replies
\* within the deadline of announce(true)) and every started worker and peer
\* has completed its join and none has left, the coordinator's tracker holds
\* exactly its own id and the ids of the running peers, and exactly the ids
\* of the running workers, whether they started before or after it.
C14_Converged ==
    (Delivered /\ \A x \in WorkerIds \cup PeerIds : phase[x] \in {"new", "serving"}) =>
        /\ coordinators = {SelfId} \cup {p \in PeerIds : phase[p] = "serving"}
        /\ workers = {w \in WorkerIds : phase[w] = "serving"}

\* a peer that never announced itself to the coordinator and a worker are
\* both tracked: the peer started first and was learnt from its reply
C14_Witness ==
    /\ Delivered
    /\ \A x \in WorkerIds \cup PeerIds : phase[x] \in {"new", "serving"}
    /\ results = {}
    /\ <<"c", 1>> \in coordinators
    /\ <<"w", 1>> \in workers

\* C15: once a worker or peer has published its BYE and everything in
\* transit has been delivered and processed, the tracker of the running
\* coordinator does not contain its id, also when the BYE overtakes the
\* reply that the component gave to the coordinator's HELLO before.
C15_Claim ==
    Delivered =>
        \A x \in WorkerIds \cup PeerIds :
            phase[x] = "closed" => x \notin coordinators \cup workers

\* Start of the coordinator has passed announce(true) in line 159
HelloPublished == startPc \in {"announced", "awaiting", "left", "returned", "closed"}

\* Start of the coordinator has passed announce(false) in line 170
ByePublished == startPc \in {"left", "closed"}

\* Start of the coordinator has returned and its deferred function closes
\* the connection
Returned == startPc \in {"failed", "returned", "closed"}

\* C16: on every path by which Start returns, a coordinator that has
\* published its HELLO has published its BYE before the connection is
\* closed, also when Partition rejects the arguments of the request.
C16_Claim == (Returned /\ HelloPublished) => ByePublished

\* C17: a worker publishes nothing that makes a coordinator count it before
\* it has subscribed to the partial computations: every worker in the
\* coordinator's tracker has completed subscribePartialComputations.
C17_Claim == \A w \in workers : phase[w] \in {"init", "serving", "closed"}

\* C18: the coordinator's own id is in its coordinator set before the id
\* of any other component is inserted into either set: whenever the tracker
\* is not empty it holds the own id, and every step that inserts another
\* id starts in a state where the own id is registered.
C18_SelfFirst ==
    /\ [](coordinators \cup workers # {} => SelfId \in coordinators)
    /\ [][((coordinators' \cup workers') \ (coordinators \cup workers)) \ {SelfId} # {}
            => SelfId \in coordinators]_vars

\* a peer and a worker have been inserted after the coordinator itself
C18_Witness ==
    /\ SelfId \in coordinators
    /\ coordinators \ {SelfId} # {}
    /\ workers # {}
    /\ startPc \in {"trackingWorkers", "announced"}

\* C19 as stated: in every state in which the loop of partitionAccumulate
\* is running, the coordinator's own id is in its coordinator set and the
\* count of coordinators is at least 1, whatever announcements have been
\* received, the echo of its own BYE included.
C19_Original ==
    pc \in {"top", "select"} =>
        /\ SelfId \in coordinators
        /\ Count(coordinators, workers)[1] >= 1

\* C19: while the loop is running and the context is not done, the own id
\* is in the coordinator set, and the count C the loop reads is at least 1,
\* whatever announcements of other components have been received; the own
\* id leaves the set only when trackCoordinators receives the echo of the
\* coordinator's own BYE, which is published after the context is done.
C19_SelfCounted ==
    /\ []((pc \in {"top", "select"} /\ ctx = "active") =>
            /\ SelfId \in coordinators
            /\ Count(coordinators, workers)[1] >= 1)
    /\ [][(pc = "top" /\ pc' = "select" /\ ctx = "active") => currentFreeState'.cc >= 1]_vars
    /\ [][(SelfId \in coordinators /\ SelfId \notin coordinators') =>
            /\ echo = DataAnnounceLeave
            /\ echo' = "none"
            /\ ctx # "active"]_vars

\* the loop has read C = 2, then the BYE of the peer has been received, and
\* the coordinator itself is still counted
C19_Witness ==
    /\ pc = "select"
    /\ ctx = "active"
    /\ currentFreeState.cc = 2
    /\ \E p \in PeerIds : phase[p] = "closed"
    /\ coordinators = {SelfId}

\* the result trackCoordinators publishes in reply to the HELLO of id
HelloReply(id) ==
    [correlation |-> id, context |-> RoleString(RoleCoordinator), data |-> SelfId]

\* C20: on an announceCoordinator action with HELLO from another id the
\* coordinator inserts the id into the set of the source's role and
\* publishes exactly one result {coordinator, own id} correlated to it; on
\* the echo of its own HELLO it changes no tracker set and publishes no
\* result. It never replies to its own announcement, and its own id enters
\* the tracker only by the preregistration in Start.
C20_HelloHandled ==
    /\ [][\A p \in PeerIds :
            (phase[p] = "init" /\ phase'[p] = "serving" /\ TracksCoordinators) =>
                /\ coordinators' = coordinators \cup {p}
                /\ workers' = workers
                /\ HelloReply(p) \notin results
                /\ results' = results \cup {HelloReply(p)}]_vars
    /\ [][(echo = DataAnnounceJoin /\ echo' = "none") =>
            UNCHANGED <<coordinators, workers, results>>]_vars
    /\ [][(SelfId \in coordinators' /\ SelfId \notin coordinators) => (startPc = "new")]_vars
    /\ [](SelfId \notin workers /\ \A r \in results : r.correlation # SelfId)

\* the HELLO of a peer has been answered and the echo of the own HELLO
\* has been received
C20_Witness ==
    /\ results = {HelloReply(<<"c", 1>>)}
    /\ echo = "none"
    /\ startPc \in {"announced", "awaiting"}
    /\ coordinators = {SelfId, <<"c", 1>>}

\* C21: on an announceCoordinator action with BYE the coordinator removes
\* the source id from the coordinator set and publishes no result; on an
\* announceWorker event with BYE it removes the id from the worker set.
\* Neither step changes another id or the set of the other role.
C21_ByeHandled ==
    /\ [][\A p \in PeerIds :
            (phase[p] = "serving" /\ phase'[p] = "closed" /\ TracksCoordinators) =>
                /\ coordinators' = coordinators \ {p}
                /\ workers' = workers
                /\ results' = results]_vars
    /\ [][\A w \in WorkerIds :
            (phase[w] = "serving" /\ phase'[w] = "closed" /\ TracksWorkers) =>
                /\ workers' = workers \ {w}
                /\ coordinators' = coordinators
                /\ results' = results]_vars

\* the BYE of a tracked worker has been received while a peer is tracked
C21_Witness ==
    /\ phase[<<"w", 1>>] = "closed"
    /\ <<"w", 1>> \notin workers
    /\ phase[<<"c", 1>>] = "serving"
    /\ coordinators = {SelfId, <<"c", 1>>}
    /\ TracksWorkers

\* the result a worker publishes in reply to a HELLO action
WorkerReply(ac) ==
    [correlation |-> ac.correlation, context |-> RoleString(RoleWorker), data |-> WorkerId]

\* C22: a worker replies exactly once to each announceCoordinator action
\* with HELLO, with the result {worker, own id} on the correlation of that
\* action, and publishes no result for an action with BYE: handling an
\* action publishes that one result or none, nothing else publishes such a
\* result, and no correlation carries two results.
C22_RepliesOnce ==
    /\ [][(acts # <<>> /\ acts' = Tail(acts)) =>
            published'.announce =
                IF Head(acts).params = DataAnnounceJoin
                THEN Append(published.announce, WorkerReply(Head(acts)))
                ELSE published.announce]_vars
    /\ [][published'.announce # published.announce =>
            (acts # <<>> /\ acts' = Tail(acts) /\ Head(acts).params = DataAnnounceJoin)]_vars
    /\ [](\A i, j \in DOMAIN published.announce :
            published.announce[i].correlation = published.announce[j].correlation => i = j)

\* two HELLO actions have been answered and a BYE action waits in the channel
C22_Witness ==
    /\ Len(published.announce) = 2
    /\ Len(acts) = 1
    /\ acts[1].params = DataAnnounceLeave

\* C23: a worker is counted at most once in W however the coordinator
\* learns of it: W is the number of distinct started workers in the worker
\* set, and a step that learns of a tracked worker once more, by its reply
\* to the coordinator's HELLO or by its HELLO event, leaves the set as it is.
C23_CountedOnce ==
    /\ [](/\ workers \subseteq {w \in WorkerIds : phase[w] # "new"}
          /\ Count(coordinators, workers)[2] = Cardinality({w \in WorkerIds : w \in workers}))
    /\ [][\A w \in WorkerIds :
            (w \in workers /\ w \in replies /\ w \notin replies') =>
                workers' = workers]_vars
    /\ [][\A w \in WorkerIds :
            (w \in workers /\ phase[w] = "init" /\ phase'[w] = "serving") =>
                workers' = workers]_vars

\* the worker has been counted by its HELLO event, and its reply to the
\* coordinator's HELLO is received next
C23_Witness ==
    /\ <<"w", 1>> \in workers
    /\ phase[<<"w", 1>>] = "serving"
    /\ <<"w", 1>> \in replies
    /\ announceStream = "open"
    /\ Count(coordinators, workers)[2] = 1

\* the set of a role
RoleSet(role, cs, ws) == IF role = RoleCoordinator THEN cs ELSE ws

\* a TryJoin call returns in this step
TryJoinReturning == call.op = "TryJoin" /\ ~call.done /\ call'.done

\* C24: TryJoin(role, id) for role coordinator or worker returns true if
\* and only if id was not in the set of the role before the call; after the
\* call id is in the set; a call for an id that is in the set (as after a
\* first call with the same arguments) returns false and leaves both sets
\* unchanged.
C24_TryJoinNovelty ==
    /\ [][TryJoinReturning =>
            /\ call'.ret = <<call.id \notin RoleSet(call.role, coordinators, workers)>>
            /\ call.id \in RoleSet(call.role, coordinators', workers')]_vars
    /\ [][(TryJoinReturning /\ call.id \in RoleSet(call.role, coordinators, workers)) =>
            /\ call'.ret = <<FALSE>>
            /\ UNCHANGED <<coordinators, workers>>]_vars

\* a second TryJoin for a tracked worker has returned false
C24_Witness ==
    /\ call.op = "TryJoin"
    /\ call.done
    /\ call.role = RoleWorker
    /\ call.ret = <<FALSE>>
    /\ workers = {call.id}
    /\ coordinators = {}

\* the role whose set a call for role must not touch
OtherRole(role) == IF role = RoleCoordinator THEN RoleWorker ELSE RoleCoordinator

\* C25: Leave(role, id) removes id from the set of that role only and is a
\* no-op when id is absent; neither TryJoin nor Leave for one role changes
\* the set of the other role, so an id is tracked as coordinator and as
\* worker independently and Count gives the size of each set.
C25_RoleFrames ==
    /\ [][(call.op = "Leave" /\ ~call.done /\ call'.done) =>
            /\ RoleSet(call.role, coordinators', workers')
                   = RoleSet(call.role, coordinators, workers) \ {call.id}
            /\ (call.id \notin RoleSet(call.role, coordinators, workers)
                   => UNCHANGED <<coordinators, workers>>)]_vars
    /\ [][(~call.done /\ call'.done) =>
            /\ RoleSet(OtherRole(call.role), coordinators', workers')
                   = RoleSet(OtherRole(call.role), coordinators, workers)
            /\ Count(coordinators', workers')[IF call.role = RoleCoordinator THEN 2 ELSE 1]
                   = Count(coordinators, workers)[IF call.role = RoleCoordinator THEN 2 ELSE 1]]_vars

\* an id tracked in both roles has left as worker and is still a coordinator
C25_Witness ==
    /\ call.op = "Leave"
    /\ call.done
    /\ call.role = RoleWorker
    /\ call.id \in coordinators
    /\ call.id \notin workers
    /\ Count(coordinators, workers) = <<1, 1>>

\* C26: after any sequence of TryJoin and Leave calls an id is in the set
\* of a role if and only if the last call for that role and id was TryJoin:
\* a returning call makes its own pair a member exactly if it is a TryJoin
\* and leaves the membership of every other pair as it was, and no step
\* other than a returning call changes a set.
C26_LastCallDecides ==
    /\ []((call.done /\ call.op # "none") =>
            (call.id \in RoleSet(call.role, coordinators, workers) <=> call.op = "TryJoin"))
    /\ [][(~call.done /\ call'.done) =>
            \A role \in TrackerRoles, id \in TrackerIds :
                (role # call.role \/ id # call.id) =>
                    (id \in RoleSet(role, coordinators', workers')
                        <=> id \in RoleSet(role, coordinators, workers))]_vars
    /\ [][~(~call.done /\ call'.done) => UNCHANGED <<coordinators, workers>>]_vars

\* ids joined earlier are still tracked after later calls for other pairs
C26_Witness ==
    /\ call.op = "Leave"
    /\ call.done
    /\ call.role = RoleWorker
    /\ workers = TrackerIds \ {call.id}
    /\ coordinators = TrackerIds

\* C27: with TryJoin and Leave called concurrently, the pair a Count call
\* returns holds the sizes of the two sets in one state of the tracker: no
\* set changes between RLock and the return, and the pair returned is the
\* pair of sizes in the state in which Count returns.
C27_CountSnapshot ==
    /\ [][(countPc = "lenW" /\ countPc' = "idle") =>
            counted = Count(coordinators, workers)]_vars
    /\ [][countPc # "idle" => UNCHANGED <<coordinators, workers>>]_vars

\* Count is about to return (2, 1) after calls that changed both sets
C27_Witness ==
    /\ countPc = "lenW"
    /\ counted = <<2, 1>>
    /\ call.op = "Leave"
    /\ call.done

\* the result handlePartialComputation publishes for the handled action h
ComputeResult(h) == [correlation |-> h.ac.correlation, context |-> WorkerId, data |-> h.output]

\* C28: for each pcomp action it processes a worker publishes at most one
\* result: none when the action id names no registered computation or when
\* PartialCompute returns nil, otherwise exactly one, with the worker's id
\* as context and the output as data, an empty output included.
C28_OneResult ==
    /\ [](\A i, j \in DOMAIN published.compute :
            published.compute[i].correlation = published.compute[j].correlation => i = j)
    /\ [](\A h \in handling : h.pos \in {"computing", "computed"} => Registered(h.ac.id))
    /\ [](\A h \in handling : h.pos = "computed" =>
            /\ h.output # Nil
            /\ h.output \in PartialCompute([name |-> h.ac.id], h.ac.params))
    /\ [][published'.compute # published.compute =>
            \E h \in handling :
                /\ h.pos = "computed"
                /\ handling' = handling \ {h}
                /\ published'.compute = Append(published.compute, ComputeResult(h))]_vars
    /\ [][\A h \in handling :
            (h.pos = "computed" /\ h \notin handling') =>
                published'.compute = Append(published.compute, ComputeResult(h))]_vars
    /\ [][\A h \in handling :
            (h.pos # "computed" /\ h \notin handling') =>
                published'.compute = published.compute]_vars

\* an output and an empty output have been published, one result each
C28_Witness ==
    /\ Len(published.compute) = 2
    /\ published.compute[1].data = Empty
    /\ published.compute[2].data = <<"int", 2>>
    /\ handling = {}
    /\ acs = <<>>

\* C29: at any time at most one PartialCompute call is in progress in a
\* worker: at most one action is being handled, and the worker takes the
\* next action from its channel only when the handling of the previous
\* one, the publication of its result included, has returned.
C29_OneAtATime ==
    /\ [](Cardinality(handling) <= 1)
    /\ [](Cardinality({h \in handling : h.pos = "computing"}) <= 1)
    /\ [][(acs # <<>> /\ acs' = Tail(acs)) => handling = {}]_vars

\* PartialCompute is running while two more actions wait in the channel
C29_Witness ==
    /\ \E h \in handling : h.pos = "computing"
    /\ Len(acs) = 2
    /\ Len(published.compute) = 0

\* the calls of a method of cm that are in progress
InProgress(method) == {r \in BagToSet(running) : r.method = method}

\* C30: for any schedule of completions from concurrently running helpers,
\* Accumulate is never in progress twice at the same time on a
\* coordinator, and never while Finalize is in progress.
C30_SerialAccumulate ==
    /\ [](BagCardinality(running) <= 1)
    /\ [](InProgress("Finalize") # {} => InProgress("Accumulate") = {})
    /\ [][running' # running => (pc # pc' /\ {pc, pc'} \cap {"accumulate", "finalize"} # {})]_vars

\* Accumulate is in progress while the completion of another helper waits
C30_Witness ==
    /\ InProgress("Accumulate") # {}
    /\ pc = "accumulate"
    /\ sending # EmptyBag
    /\ \E res \in BagToSet(sending) : ~res.resubmit /\ ~IsError(res.data)


\* the position of a phase of Worker.Start in the order of the code
WorkerRank(p) ==
    CASE p = "new" -> 0
      [] p = "open" -> 1
      [] p = "tracking" -> 2
      [] p = "subscribed" -> 3
      [] p = "serving" -> 4
      [] p = "left" -> 5
      [] p = "awaited1" -> 6
      [] p = "awaited2" -> 7
      [] p = "closed" -> 8
      [] OTHER -> 9

\* C31: a worker never goes back to an earlier phase; it publishes HELLO once,
\* after both subscriptions are established, and BYE once, after HELLO and
\* only after the cancellation; and its transport is closed only when both
\* the announcement-tracking task and the partial-compute task have ended, so
\* with no partial computation in progress.
C31_WorkerPhases ==
    /\ [](/\ wEvents \in {<<>>, <<DataAnnounceJoin>>, <<DataAnnounceJoin, DataAnnounceLeave>>}
          /\ (Len(wEvents) >= 1) <=> (wPc \in {"serving", "left", "awaited1", "awaited2", "closed"})
          /\ (Len(wEvents) = 2) <=> (wPc \in {"left", "awaited1", "awaited2", "closed"})
          /\ (Len(wEvents) = 2) => wCanceled
          /\ (Len(wEvents) >= 1) => (wTasks.track # "none" /\ wTasks.compute # "none")
          /\ (wPc = "closed") =>
                 /\ wTasks.track = "finished"
                 /\ wTasks.compute = "finished"
                 /\ handling = {})
    /\ [][WorkerRank(wPc') >= WorkerRank(wPc)]_vars

\* a worker that served a partial computation has shut down
C31_Witness ==
    /\ wPc = "closed"
    /\ Len(published.compute) > 0

\* C32 (the statement as claimed): the process exits with status 0 when
\* Finalize ran or help was shown, and with another status when the
\* request was rejected or the computation failed fast.
C32_Claim ==
    (exited # <<>> /\ fault = "none") =>
        /\ (finalizeCalls > 0 \/ output = <<"usage">>) => exited[1] = 0
        /\ (startPc = "returned" \/ failFast) => exited[1] # 0

RECURSIVE Factorial(_)
Factorial(n) == IF n <= 1 THEN 1 ELSE n * Factorial(n - 1)

\* C33: for fac with the argument n, the closed channel has carried exactly
\* the decimal strings of 2..n in ascending order (none for n < 2), every
\* output of PartialCompute is its input, and what Finalize prints after
\* every input was accumulated once, in any order, is n!.
C33_Factorial ==
    /\ Len(fac.sent) <= Max(cm.n - 1, 0)
    /\ fac.closed => Len(fac.sent) = Max(cm.n - 1, 0)
    /\ \A k \in 1..Len(fac.sent) :
           /\ ParseUint(fac.sent[k]) = <<k + 1>>
           /\ fac.sent[k][1] # 0
    /\ \A k \in 1..Len(fac.outputs) : fac.outputs[k] = fac.sent[k]
    /\ fac.printed # <<>> => fac.printed = <<Factorial(cm.n)>>

\* the factorial of 5 was printed as 120
C33_Witness ==
    /\ cm.n = 5
    /\ fac.printed = <<120>>

\* C34: a helper that ends takes its dispatch out of the awaited ones and
\* hands the loop one completion record, or none when the context is done
\* (Canceled); the loop decrements the in-flight counter only on receiving
\* a record; so the counter is never below the number of dispatches still
\* awaited or about to be received, and never negative.
C34_OneCompletion ==
    /\ [](/\ pcProc >= BagCardinality(awaiting) + BagCardinality(sending)
          /\ pcProc >= 0
          /\ (ctx = "active") => pcProc = BagCardinality(awaiting) + BagCardinality(sending))
    /\ [][/\ (BagCardinality(awaiting') < BagCardinality(awaiting)) =>
                 /\ BagCardinality(awaiting') = BagCardinality(awaiting) - 1
                 /\ pcProc' = pcProc
                 /\ \/ BagCardinality(sending') = BagCardinality(sending) + 1
                    \/ /\ sending' = sending
                       /\ ctx # "active"
          /\ (pcProc' < pcProc) =>
                 /\ pcProc' = pcProc - 1
                 /\ BagCardinality(sending') = BagCardinality(sending) - 1
                 /\ awaiting' = awaiting]_vars

\* a dispatch has ended with Canceled and without a completion record,
\* while another one is still awaited
C34_Witness ==
    /\ pcProc = 2
    /\ BagCardinality(awaiting) = 1
    /\ sending = EmptyBag

\* C35 (the statement as claimed): when Start has returned after its three
\* receives from finalized, the partition/accumulate goroutine has finished
\* and has written the fail-fast line or the output of Finalize.
C35_Claim == (startPc = "closed") => (pc = "done" /\ output # <<>>)

\* C36: while the loop has not failed fast, the inputs read from the
\* partition channel are the accumulated ones, the ones in flight and the
\* ones queued for resubmission; the queue never holds more inputs than
\* were read, nor are more read than Partition emits; and the queue
\* overflows only after more than ResubmitCap inputs have been read.
C36_Conservation ==
    /\ [](/\ ~failFast =>
                 inRead = BagCardinality(accumulated) + pcProc + Len(pcResubmit)
          /\ Len(pcResubmit) <= inRead
          /\ inRead <= Len(Partition(cm)))
    /\ [][(~failFast /\ failFast' /\ Len(pcResubmit) = ResubmitCap) =>
              inRead > ResubmitCap]_vars

\* inputs are accumulated, in flight and queued at the same time
C36_Witness ==
    /\ ~failFast
    /\ BagCardinality(accumulated) >= 1
    /\ pcProc >= 1
    /\ Len(pcResubmit) >= 1

\* the share W/C of a snapshot is 0
ShareZero(s) == s.cc = 0 \/ s.cw \div s.cc = 0

\* C37 (the statement as claimed): no partial is dispatched in a step taken
\* while the tracker holds fewer workers than coordinators.
C37_Original ==
    [][(Cardinality(workers) < Cardinality(coordinators)) => pcProc' <= pcProc]_vars

\* C37: in a loop iteration whose snapshot of the tracker has the share
\* W/C = 0, no input is read from the partition channel or the resubmit
\* queue and nothing is dispatched; and unless a completion is pending or
\* the context is done, the iteration does not leave the loop, so the
\* request is neither finalized nor failed.
C37_NoShare ==
    [][(pc = "select" /\ ShareZero(currentFreeState)) =>
           /\ pcProc' <= pcProc
           /\ inRead' = inRead
           /\ inNil' = inNil
           /\ Len(pcResubmit') >= Len(pcResubmit)
           /\ (sending = EmptyBag /\ ctx = "active") => pc' \in {"select", "top"}]_vars

\* a worker is tracked, nothing is in flight, an input is pending, and the
\* snapshot has the share 0
C37_Witness ==
    /\ pc = "select"
    /\ ShareZero(currentFreeState)
    /\ currentFreeState.cw >= 1
    /\ Cardinality(workers) >= 1
    /\ pcProc = 0
    /\ inRead < Len(Partition(cm))

\* the inputs not yet dispatched: unread in the partition channel or queued
\* for resubmission
Pending == (Len(Partition(cm)) - inRead) + Len(pcResubmit)

\* the most inputs a request of Requests has
MaxPending == Max(MaxFacArg, MaxPiIter)

\* C38: when the tracker gives the running loop a free worker (W/C exceeds
\* the in-flight count) and n inputs are pending, then a pending input is
\* dispatched, with no completion needed for it, or a failed partial joins
\* the pending ones first, unless the free worker is lost again, the
\* context is cancelled or the loop fails fast.
C38_WakesUp ==
    \A n \in 1..MaxPending :
        (/\ pc \in {"top", "select"}
         /\ ctx = "active"
         /\ CurrentShare - pcProc > 0
         /\ Pending = n)
            ~> \/ Pending # n
               \/ CurrentShare - pcProc <= 0
               \/ ctx # "active"
               \/ pc \in {"break", "done"}

\* the loop went through a select with the channels blocked by a snapshot
\* without free worker, and since then a worker has joined: a free worker
\* and a pending input, nothing in flight
C38_Witness ==
    /\ pc = "top"
    /\ ctx = "active"
    /\ ~Unblocked(currentFreeState)
    /\ currentFreeState.cc > 0
    /\ CurrentShare - pcProc > 0
    /\ pcProc = 0
    /\ Pending >= 1

\* C39 (the statement as claimed): a call of TryJoin or Leave made for a
\* role string that is neither "coordinator" nor "worker" completes without
\* fault, and TryJoin reports no insertion.
C39_Claim ==
    (call.op # "none" /\ call.role = RoleUndefined /\ mu = "free") =>
        /\ fault = "none"
        /\ call.done
        /\ call.op = "TryJoin" => call.ret = <<FALSE>>

\* C40 (the statement as claimed): after the publication of the join or
\* leave announcement has failed and the error is logged, the coordinator
\* has not crashed.
C40_Claim == (startPc = "publishFailed") => (fault = "none" /\ exited = <<>>)
====
